---------------------------- MODULE Spec2Model ----------------------------
(***************************************************************************)
(* A model of the design-token pipeline: the source adapter                *)
(* (src/src/extract/normalize.js), the Figma API client's rate limiter     *)
(* (src/unnamed/part_000), the pipeline orchestrator (src/src/pipeline.js) *)
(* the custom transforms (src/src/transform/custom-transforms.js) and the   *)
(* documentation formats (src/src/transform/custom-formats.js).            *)
(*                                                                         *)
(* JavaScript strings are sequences of one-character strings, so that      *)
(* split/trim/replace/join are computed as the code computes them.         *)
(* JavaScript values are records tagged by t: "undefined", "string",       *)
(* "number", "object".  An object tree is a sequence of property entries   *)
(* [path, val] in insertion order; the properties of the object stored at  *)
(* path p are the entries whose path extends p by one key.                 *)
(***************************************************************************)
EXTENDS Integers, Sequences, FiniteSets, TLC

VARIABLES
    \* ---- normalizeTokens (normalize.js) ----
    npc,            \* position in normalizeTokens: "colors","text","effects","done","threw"
    colors,         \* figmaData.styles.colors, the records consumed so far
    text,           \* figmaData.styles.text, the records consumed so far
    effects,        \* figmaData.styles.effects, the records consumed so far
    normalized,     \* the object `normalized` of normalizeTokens, as property entries
    \* ---- runPipeline (pipeline.js) ----
    ppc,            \* position in runPipeline: "init", the running step, "returned", "thrown";
                    \* "exit0", "exit1" once main has called process.exit
    results,        \* the object `results` of runPipeline
    spinnerLog,     \* the steps announced by spinner.start, in order
    tokenTypes,     \* the token types present in the extracted tokens
    platform,       \* per configured platform: "idle", "building", "built", "failed"
    files,          \* the output files that exist on disk
    \* ---- the Figma API client (unnamed/part_000) ----
    now,            \* Date.now(), in milliseconds
    lastRequestTime,\* the module-level lastRequestTime
    hasToken,       \* whether FIGMA_ACCESS_TOKEN is set
    chain,          \* position of fetchFileStyles ("styles") and fetchFileVariables ("variables")
    wakeAt,         \* per chain, when the setTimeout of applyRateLimit fires
    stylesLeft,     \* the styles fetchStyleDetails has still to fetch
    sent,           \* the requests started so far: who sent it and when
    \* ---- one token under the custom transforms (custom-transforms.js) ----
    token,          \* the token Style Dictionary hands to the transforms
    applied,        \* the transforms applied so far, each with what it returned
    \* ---- one call of a function of normalize.js on its own ----
    input,          \* the argument of the call
    output,         \* what the call returned; NotCalled before the call
    \* ---- the documentation formats (custom-formats.js) ----
    dictionary,     \* dictionary.allTokens, the token list handed to the formats
    rendered,       \* the renders so far: the format, the time, what it returned
    \* ---- fetchStyleDetails (unnamed/part_000) ----
    styles,         \* the style metadata handed to fetchStyleDetails
    cursor,         \* the index of the style the loop is at; 0 before the call
    detailedStyles, \* the object `detailedStyles`: colors, text, effects
    processed,      \* the counter `processed`
    requested,      \* the node ids requested so far, in order
    \* ---- the demo page (pipeline.js:352-690) ----
    uiNow,          \* the time in milliseconds since the click
    button,         \* button.disabled of #run-pipeline
    statusClasses,  \* the class list of #pipeline-status
    progressHidden, \* whether #progress-section has the class hidden
    stepClasses,    \* the class list of each .progress-step
    run,            \* position of the async function runPipeline of the page
    anim,           \* position of animateSteps
    resetTimer      \* the timer set in the finally block

normVars  == <<npc, colors, text, effects, normalized>>
pipeVars  == <<ppc, results, spinnerLog, tokenTypes, platform, files>>
rateVars  == <<now, lastRequestTime, hasToken, chain, wakeAt, stylesLeft, sent>>
xformVars == <<token, applied>>
callVars  == <<input, output>>
docVars   == <<dictionary, rendered>>
detailVars == <<styles, cursor, detailedStyles, processed, requested>>
uiVars    == <<uiNow, button, statusClasses, progressHidden, stepClasses, run, anim, resetTimer>>

vars == <<normVars, pipeVars, rateVars, xformVars, callVars, docVars, detailVars, uiVars>>

notNorm  == <<pipeVars, rateVars, xformVars, callVars, docVars, detailVars, uiVars>>
notPipe  == <<normVars, rateVars, xformVars, callVars, docVars, detailVars, uiVars>>
notRate  == <<normVars, pipeVars, xformVars, callVars, docVars, detailVars, uiVars>>
notXform == <<normVars, pipeVars, rateVars, callVars, docVars, detailVars, uiVars>>
notCall  == <<normVars, pipeVars, rateVars, xformVars, docVars, detailVars, uiVars>>
notDoc   == <<normVars, pipeVars, rateVars, xformVars, callVars, detailVars, uiVars>>
notDetail == <<normVars, pipeVars, rateVars, xformVars, callVars, docVars, uiVars>>
notUi    == <<normVars, pipeVars, rateVars, xformVars, callVars, docVars, detailVars>>

-----------------------------------------------------------------------------
(* Characters and strings *)

LowerCh == <<"a","b","c","d","e","f","g","h","i","j","k","l","m",
             "n","o","p","q","r","s","t","u","v","w","x","y","z">>
UpperCh == <<"A","B","C","D","E","F","G","H","I","J","K","L","M",
             "N","O","P","Q","R","S","T","U","V","W","X","Y","Z">>
DigitCh == <<"0","1","2","3","4","5","6","7","8","9">>
HexCh   == <<"0","1","2","3","4","5","6","7","8","9","A","B","C","D","E","F">>

InSeq(c, s) == \E i \in 1..Len(s) : s[i] = c

\* the character class [a-zA-Z0-9-_] of parseFigmaName's first replace
IsNameChar(c) == InSeq(c, LowerCh) \/ InSeq(c, UpperCh) \/ InSeq(c, DigitCh) \/ c \in {"-", "_"}

\* String.prototype.trim, for the whitespace of the modelled alphabet
IsSpace(c) == c = " "

RECURSIVE TrimStart(_)
TrimStart(s) == IF s # <<>> /\ IsSpace(Head(s)) THEN TrimStart(Tail(s)) ELSE s

RECURSIVE TrimEnd(_)
TrimEnd(s) == IF s # <<>> /\ IsSpace(s[Len(s)]) THEN TrimEnd(SubSeq(s, 1, Len(s) - 1)) ELSE s

Trim(s) == TrimEnd(TrimStart(s))

\* String.prototype.split on a one-character separator
RECURSIVE SplitAcc(_, _, _)
SplitAcc(s, sep, cur) ==
    IF s = <<>> THEN <<cur>>
    ELSE IF Head(s) = sep THEN <<cur>> \o SplitAcc(Tail(s), sep, <<>>)
    ELSE SplitAcc(Tail(s), sep, Append(cur, Head(s)))

Split(s, sep) == SplitAcc(s, sep, <<>>)

\* Array.prototype.join
RECURSIVE Join(_, _)
Join(parts, sep) ==
    IF parts = <<>> THEN <<>>
    ELSE IF Len(parts) = 1 THEN parts[1]
    ELSE parts[1] \o sep \o Join(Tail(parts), sep)

\* .replace(/^-+|-+$/g, '')
RECURSIVE StripLeadingDashes(_)
StripLeadingDashes(s) == IF s # <<>> /\ Head(s) = "-" THEN StripLeadingDashes(Tail(s)) ELSE s

RECURSIVE StripTrailingDashes(_)
StripTrailingDashes(s) ==
    IF s # <<>> /\ s[Len(s)] = "-" THEN StripTrailingDashes(SubSeq(s, 1, Len(s) - 1)) ELSE s

\* Number.prototype.toString for an integer
RECURSIVE NatToStr(_)
NatToStr(n) == IF n < 10 THEN <<DigitCh[n + 1]>> ELSE NatToStr(n \div 10) \o <<DigitCh[(n % 10) + 1]>>

IntToStr(n) == IF n < 0 THEN <<"-">> \o NatToStr(-n) ELSE NatToStr(n)

\* Math.round of the non-negative rational num/den (half rounds up)
RoundDiv(num, den) == (2 * num + den) \div (2 * den)

-----------------------------------------------------------------------------
(* JavaScript values and objects *)

Undef  == [t |-> "undefined"]
Str(s) == [t |-> "string", s |-> s]
Num(n) == [t |-> "number", n |-> n]
ObjV   == [t |-> "object"]

\* the value of `output` before the call
NotCalled == [called |-> FALSE]

IsPrefix(p, q) == Len(p) <= Len(q) /\ SubSeq(q, 1, Len(p)) = p
IsStrictPrefix(p, q) == Len(p) < Len(q) /\ SubSeq(q, 1, Len(p)) = p

\* the entries of `store` at path p (an object tree holds at most one)
Indexes(store, p) == {i \in 1..Len(store) : store[i].path = p}

\* `key in obj`, for the object at Front(p) and key Last(p)
HasProp(store, p) == Indexes(store, p) # {}

\* obj[key]; undefined when the property is absent
ValAt(store, p) ==
    IF p = <<>> THEN ObjV
    ELSE IF HasProp(store, p) THEN store[CHOOSE i \in Indexes(store, p) : TRUE].val
    ELSE Undef

\* the entries of a fresh object tree `sub` placed under path p
Graft(p, sub) == [i \in 1..Len(sub) |-> [path |-> p \o sub[i].path, val |-> sub[i].val]]

EmptyObj == << [path |-> <<>>, val |-> ObjV] >>

\* a store that would keep the old property beside the new one
SetPropAppending(store, p, sub) == store \o Graft(p, sub)

\* obj[key] = value (normalize.js:249 and :255): the old value and everything under
\* it is replaced, a new key is added after the existing ones
SetProp(store, p, sub) ==
    LET kept == SelectSeq(store, LAMBDA e : ~IsStrictPrefix(p, e.path))
        here == [path |-> p, val |-> sub[1].val]
        base == IF HasProp(store, p)
                THEN [i \in 1..Len(kept) |-> IF kept[i].path = p THEN here ELSE kept[i]]
                ELSE Append(kept, here)
    IN  base \o Graft(p, Tail(sub))

\* the key JavaScript uses for path[path.length - 1] of an empty path
UndefinedKey == <<"u","n","d","e","f","i","n","e","d">>

\* the for loop of setNestedValue (normalize.js:246-252); `current` is the path of
\* the object the loop stands on.  `key in current` and an assignment to a property
\* of `current` raise a TypeError when `current` is not an object (the module is an
\* ES module, hence strict).
RECURSIVE Descend(_, _, _)
Descend(store, current, keys) ==
    IF keys = <<>> THEN [store |-> store, current |-> current, threw |-> FALSE]
    ELSE IF ValAt(store, current).t # "object"
    THEN [store |-> store, current |-> current, threw |-> TRUE]
    ELSE LET next == Append(current, Head(keys))
         IN  Descend(IF HasProp(store, next) THEN store ELSE SetProp(store, next, EmptyObj),
                     next, Tail(keys))

setNestedValue(store, obj, path, value) ==
    LET d == Descend(store, obj, SubSeq(path, 1, Len(path) - 1))
        lastKey == IF path = <<>> THEN UndefinedKey ELSE path[Len(path)]
    IN  IF d.threw \/ ValAt(d.store, d.current).t # "object"
        THEN [store |-> d.store, threw |-> TRUE]
        ELSE [store |-> SetProp(d.store, Append(d.current, lastKey), value), threw |-> FALSE]

-----------------------------------------------------------------------------
(* normalize.js *)

\* the map callback of parseFigmaName without its second replace
ParsePartUnstripped(part) ==
    LET trimmed == Trim(part)
    IN  [i \in 1..Len(trimmed) |-> IF IsNameChar(trimmed[i]) THEN trimmed[i] ELSE "-"]

\* parseFigmaName (normalize.js:227-235); name is a string
ParsePart(part) ==
    LET trimmed  == Trim(part)
        replaced == [i \in 1..Len(trimmed) |-> IF IsNameChar(trimmed[i]) THEN trimmed[i] ELSE "-"]
    IN  StripTrailingDashes(StripLeadingDashes(replaced))

parseFigmaName(name) ==
    LET parts == Split(name, "/")
    IN  SelectSeq([i \in 1..Len(parts) |-> ParsePart(parts[i])], LAMBDA part : part # <<>>)

\* Number.prototype.toString(16) of a natural number, upper-cased
RECURSIVE NatToHex(_)
NatToHex(n) == IF n < 16 THEN <<HexCh[n + 1]>> ELSE NatToHex(n \div 16) \o <<HexCh[(n % 16) + 1]>>

\* toHex without padStart
toHexUnpadded(v) == NatToHex(RoundDiv(v.num, v.den))

\* c * 256, a wrong scale
Times256(c) == [num |-> 256 * c.num, den |-> c.den]

\* toHex of rgbToHex (normalize.js:212-215); value is the rational v.num / v.den >= 0
toHex(v) ==
    LET hex == NatToHex(RoundDiv(v.num, v.den))
    IN  IF Len(hex) < 2 THEN <<"0">> \o hex ELSE hex

rgbToHex(r, g, b) == <<"#">> \o toHex(r) \o toHex(g) \o toHex(b)

\* c * 255 for a rational c
Times255(c) == [num |-> 255 * c.num, den |-> c.den]

\* JavaScript truthiness of a value
Truthy(v) ==
    CASE v.t = "undefined" -> FALSE
      [] v.t = "string"    -> v.s # <<>>
      [] v.t = "number"    -> v.n # 0
      [] OTHER             -> TRUE

\* a || b
OrElse(a, b) == IF Truthy(a) THEN a ELSE b

kValue       == <<"v","a","l","u","e">>
kType        == <<"t","y","p","e">>
kDescription == <<"d","e","s","c","r","i","p","t","i","o","n">>
kSource      == <<"s","o","u","r","c","e">>
kFigmaKey    == <<"f","i","g","m","a","K","e","y">>
kFigmaName   == <<"f","i","g","m","a","N","a","m","e">>

\* the object literal { value, type, description, source: { figmaKey, figmaName } }
\* that normalizeColors, normalizeTypography and normalizeEffects store
TokenObject(value, type, description, figmaKey, figmaName) ==
    << [path |-> <<>>,                      val |-> ObjV],
       [path |-> <<kValue>>,                val |-> value],
       [path |-> <<kType>>,                 val |-> Str(type)],
       [path |-> <<kDescription>>,          val |-> description],
       [path |-> <<kSource>>,               val |-> ObjV],
       [path |-> <<kSource, kFigmaKey>>,    val |-> figmaKey],
       [path |-> <<kSource, kFigmaName>>,   val |-> figmaName] >>

tColor == <<"c","o","l","o","r">>

\* the hexValue of one colour record (normalize.js:71-77)
ColorHexValue(color) ==
    IF color.color.present
    THEN Str(rgbToHex(Times255(color.color.r), Times255(color.color.g), Times255(color.color.b)))
    ELSE IF Truthy(color.value) THEN color.value
    ELSE Undef

\* one iteration of the loop of normalizeColors (normalize.js:66-89) on the object at
\* path obj; reading color.name of a record without a name gives undefined, and
\* undefined.split raises a TypeError
NormalizeColor(store, obj, color) ==
    IF color.name.t # "string" THEN [store |-> store, threw |-> TRUE]
    ELSE setNestedValue(store, obj, parseFigmaName(color.name.s),
            TokenObject(ColorHexValue(color), tColor,
                        OrElse(color.description,
                               Str(<<"C","o","l","o","r",":"," ">> \o color.name.s)),
                        color.key, color.name))

\* String(v) and `${v}`
ToStr(v) ==
    CASE v.t = "string" -> v.s
      [] v.t = "number" -> IntToStr(v.n)
      [] OTHER          -> UndefinedKey

\* two decimals cut off instead of rounded
ToFixed2Truncating(a, b) ==
    LET h == (100 * a) \div b
    IN  NatToStr(h \div 100) \o <<".">> \o <<DigitCh[((h \div 10) % 10) + 1], DigitCh[(h % 10) + 1]>>

\* (a / b).toFixed(2) for integers a >= 0, b > 0
ToFixed2(a, b) ==
    LET h == RoundDiv(100 * a, b)
    IN  NatToStr(h \div 100) \o <<".">> \o <<DigitCh[((h \div 10) % 10) + 1], DigitCh[(h % 10) + 1]>>

kFontFamily == <<"f","o","n","t","F","a","m","i","l","y">>
kFontSize   == <<"f","o","n","t","S","i","z","e">>
kFontWeight == <<"f","o","n","t","W","e","i","g","h","t">>
kLineHeight == <<"l","i","n","e","H","e","i","g","h","t">>
tDimension  == <<"d","i","m","e","n","s","i","o","n">>
tNumber     == <<"n","u","m","b","e","r">>
tShadow     == <<"s","h","a","d","o","w">>

\* tokenName of normalizeTypography (normalize.js:110); [tokenName] with an
\* undefined tokenName addresses the key "undefined"
TokenName(namePath) ==
    IF Len(namePath) >= 2 THEN Join(Tail(namePath), <<"-">>)
    ELSE IF Len(namePath) = 1 THEN namePath[1]
    ELSE UndefinedKey

\* lineHeightValue of normalizeTypography (normalize.js:151-153), as String(...) gives it
LineHeightValue(style) ==
    IF Truthy(style.fontSize) THEN ToFixed2(style.lineHeight.n, style.fontSize.n)
    ELSE ToStr(style.lineHeight)

\* one iteration of the loop of normalizeTypography (normalize.js:107-165); typo is
\* the path of the object holding fontFamily, fontSize, fontWeight and lineHeight
NormalizeTextStyle(store, typo, style) ==
    IF style.name.t # "string" THEN [store |-> store, threw |-> TRUE]
    ELSE
    LET tokenName == TokenName(parseFigmaName(style.name.s))
        s1 == IF Truthy(style.fontFamily)
              THEN setNestedValue(store, Append(typo, kFontFamily), <<tokenName>>,
                      TokenObject(style.fontFamily, kFontFamily,
                          OrElse(style.description,
                                 Str(<<"F","o","n","t"," ","f","a","m","i","l","y",":"," ">>
                                     \o ToStr(style.fontFamily))),
                          style.key, style.name)).store
              ELSE store
        s2 == IF Truthy(style.fontSize)
              THEN setNestedValue(s1, Append(typo, kFontSize), <<tokenName>>,
                      TokenObject(Str(ToStr(style.fontSize) \o <<"p","x">>), tDimension,
                          OrElse(style.description,
                                 Str(<<"F","o","n","t"," ","s","i","z","e",":"," ">>
                                     \o ToStr(style.fontSize) \o <<"p","x">>)),
                          style.key, style.name)).store
              ELSE s1
        s3 == IF Truthy(style.fontWeight)
              THEN setNestedValue(s2, Append(typo, kFontWeight), <<tokenName>>,
                      TokenObject(Str(ToStr(style.fontWeight)), kFontWeight,
                          OrElse(style.description,
                                 Str(<<"F","o","n","t"," ","w","e","i","g","h","t",":"," ">>
                                     \o ToStr(style.fontWeight))),
                          style.key, style.name)).store
              ELSE s2
        s4 == IF Truthy(style.lineHeight)
              THEN setNestedValue(s3, Append(typo, kLineHeight), <<tokenName>>,
                      TokenObject(Str(LineHeightValue(style)), tNumber,
                          OrElse(style.description,
                                 Str(<<"L","i","n","e"," ","h","e","i","g","h","t",":"," ">>
                                     \o LineHeightValue(style))),
                          style.key, style.name)).store
              ELSE s3
    IN  [store |-> s4, threw |-> FALSE]

\* a JavaScript number given in hundredths, as `${a}` prints it (0.25, 0.5, 1)
HundredthsToStr(h) ==
    IF h % 100 = 0 THEN NatToStr(h \div 100)
    ELSE NatToStr(h \div 100) \o <<".">> \o
         (IF h % 10 = 0 THEN <<DigitCh[((h \div 10) % 10) + 1]>>
          ELSE <<DigitCh[((h \div 10) % 10) + 1], DigitCh[(h % 10) + 1]>>)

\* Math.round((color?.c || 0) * 255) (normalize.js:275-277)
EffectChannel(color, c) ==
    IF color.present THEN RoundDiv(255 * color[c].num, color[c].den) ELSE 0

\* one shadow layer of figmaEffectToCss (normalize.js:268-283)
ShadowLayer(effect) ==
    LET x      == IF effect.offset.present THEN effect.offset.x ELSE 0
        y      == IF effect.offset.present THEN effect.offset.y ELSE 0
        blur   == OrElse(effect.radius, Num(0)).n
        spread == OrElse(effect.spread, Num(0)).n
        r      == EffectChannel(effect.color, "r")
        g      == EffectChannel(effect.color, "g")
        b      == EffectChannel(effect.color, "b")
        a      == IF effect.color.present /\ effect.color.hasA THEN effect.color.a100 ELSE 100
        colorString == <<"r","g","b","a","(">> \o NatToStr(r) \o <<","," ">> \o NatToStr(g)
                       \o <<","," ">> \o NatToStr(b) \o <<","," ">> \o HundredthsToStr(a) \o <<")">>
        prefix == IF effect.type = "INNER_SHADOW" THEN <<"i","n","s","e","t"," ">> ELSE <<>>
    IN  prefix \o IntToStr(x) \o <<"p","x"," ">> \o IntToStr(y) \o <<"p","x"," ">>
        \o IntToStr(blur) \o <<"p","x"," ">> \o IntToStr(spread) \o <<"p","x"," ">> \o colorString

\* figmaEffectToCss without its test of the layer's type
figmaEffectToCssAnyType(layers) ==
    Join([i \in 1..Len(layers) |-> ShadowLayer(layers[i])], <<","," ">>)

\* figmaEffectToCss (normalize.js:263-288)
figmaEffectToCss(layers) ==
    LET shadowLayers == SelectSeq(layers, LAMBDA e : e.type \in {"DROP_SHADOW", "INNER_SHADOW"})
    IN  Join([i \in 1..Len(shadowLayers) |-> ShadowLayer(shadowLayers[i])], <<","," ">>)

\* the value of one effect record (normalize.js:181-188)
EffectValue(effect) ==
    IF effect.hasEffects /\ Len(effect.effects) > 0 THEN Str(figmaEffectToCss(effect.effects))
    ELSE IF Truthy(effect.value) THEN effect.value
    ELSE Undef

\* one iteration of the loop of normalizeEffects (normalize.js:178-199)
NormalizeEffect(store, obj, effect) ==
    IF effect.name.t # "string" THEN [store |-> store, threw |-> TRUE]
    ELSE setNestedValue(store, obj, parseFigmaName(effect.name.s),
            TokenObject(EffectValue(effect), tShadow,
                        OrElse(effect.description,
                               Str(<<"E","f","f","e","c","t",":"," ">> \o effect.name.s)),
                        effect.key, effect.name))

-----------------------------------------------------------------------------
(* normalizeTokens as a state machine: one step per style record *)

kColors     == <<"c","o","l","o","r","s">>
kTypography == <<"t","y","p","o","g","r","a","p","h","y">>
kEffects    == <<"e","f","f","e","c","t","s">>
kMetadata   == <<"m","e","t","a","d","a","t","a">>

\* the object literal of normalizeTokens (normalize.js:17-32); of metadata only
\* `source` is kept (extractedAt, fileName and version echo the clock and the payload)
InitialNormalized ==
    << [path |-> <<kColors>>,                   val |-> ObjV],
       [path |-> <<kTypography>>,               val |-> ObjV],
       [path |-> <<kTypography, kFontFamily>>,  val |-> ObjV],
       [path |-> <<kTypography, kFontSize>>,    val |-> ObjV],
       [path |-> <<kTypography, kFontWeight>>,  val |-> ObjV],
       [path |-> <<kTypography, kLineHeight>>,  val |-> ObjV],
       [path |-> <<kEffects>>,                  val |-> ObjV],
       [path |-> <<kMetadata>>,                 val |-> ObjV],
       [path |-> <<kMetadata, kSource>>,        val |-> Str(<<"f","i","g","m","a">>)] >>

\* the largest number of style records in one payload
MaxRecords == 3

Rat(n, d) == [num |-> n, den |-> d]
Rgb(r, g, b) == [present |-> TRUE, r |-> r, g |-> g, b |-> b]
NoRgb == [present |-> FALSE]

nRed         == <<"r","e","d">>
nRed500      == <<"r","e","d","/","5","0","0">>
nRed500Sp    == <<"r","e","d"," ","/"," ","5","0","0">>

\* colour style records: well-formed ones whose names parse to equal paths and to
\* prefixes of one another, one without a name, one with neither color nor value
ColorRecords ==
    { [key |-> Str(<<"k","1">>), name |-> Str(nRed), color |-> Rgb(Rat(1,1), Rat(0,1), Rat(0,1)),
       value |-> Undef, description |-> Undef],
      [key |-> Str(<<"k","2">>), name |-> Str(nRed500), color |-> Rgb(Rat(1,2), Rat(0,1), Rat(1,5)),
       value |-> Undef, description |-> Str(<<"d","2">>)],
      [key |-> Str(<<"k","3">>), name |-> Str(nRed500Sp), color |-> NoRgb,
       value |-> Str(<<"#","0","0","F","F","0","0">>), description |-> Undef],
      [key |-> Str(<<"k","4">>), name |-> Undef, color |-> Rgb(Rat(0,1), Rat(0,1), Rat(1,1)),
       value |-> Undef, description |-> Undef],
      [key |-> Str(<<"k","5">>), name |-> Str(nRed500), color |-> NoRgb,
       value |-> Undef, description |-> Undef] }

nFontSizeLg == <<"f","o","n","t","S","i","z","e","/","l","g">>
nBodyLg     == <<"b","o","d","y","/","l","g">>
nLeading    == <<"l","e","a","d","i","n","g">>

\* text style records: a single property, all four properties, a line height
\* without a font size, and one without a name
TextRecords ==
    { [key |-> Str(<<"t","1">>), name |-> Str(nFontSizeLg), description |-> Undef,
       fontFamily |-> Undef, fontSize |-> Num(24), fontWeight |-> Undef, lineHeight |-> Undef],
      [key |-> Str(<<"t","2">>), name |-> Str(nBodyLg), description |-> Undef,
       fontFamily |-> Str(<<"I","n","t","e","r">>), fontSize |-> Num(16),
       fontWeight |-> Num(400), lineHeight |-> Num(24)],
      [key |-> Str(<<"t","3">>), name |-> Str(nLeading), description |-> Str(<<"d","3">>),
       fontFamily |-> Undef, fontSize |-> Undef, fontWeight |-> Undef, lineHeight |-> Num(20)],
      [key |-> Str(<<"t","4">>), name |-> Undef, description |-> Undef,
       fontFamily |-> Undef, fontSize |-> Num(12), fontWeight |-> Undef, lineHeight |-> Undef] }

nShadow     == <<"s","h","a","d","o","w">>
nShadowSm   == <<"s","h","a","d","o","w","/","s","m">>

DropShadow ==
    [type |-> "DROP_SHADOW", offset |-> [present |-> TRUE, x |-> 0, y |-> 1],
     radius |-> Num(2), spread |-> Undef,
     color |-> [present |-> TRUE, r |-> Rat(0,1), g |-> Rat(0,1), b |-> Rat(1,2),
                hasA |-> TRUE, a100 |-> 25]]
InnerShadowBare ==
    [type |-> "INNER_SHADOW", offset |-> [present |-> FALSE],
     radius |-> Undef, spread |-> Undef, color |-> [present |-> FALSE]]
LayerBlur ==
    [type |-> "LAYER_BLUR", offset |-> [present |-> FALSE],
     radius |-> Num(4), spread |-> Undef, color |-> [present |-> FALSE]]

\* effect style records: layers from the API, a CSS value from the mock API, a
\* record with no layers and no value, and one without a name
EffectRecords ==
    { [key |-> Str(<<"e","1">>), name |-> Str(nShadowSm), description |-> Undef,
       hasEffects |-> TRUE, effects |-> <<DropShadow, LayerBlur, InnerShadowBare>>, value |-> Undef],
      [key |-> Str(<<"e","2">>), name |-> Str(nShadow), description |-> Undef,
       hasEffects |-> FALSE, effects |-> <<>>,
       value |-> Str(<<"0"," ","1","p","x"," ","2","p","x"," ","#","0","0","0">>)],
      [key |-> Str(<<"e","3">>), name |-> Str(nShadowSm), description |-> Undef,
       hasEffects |-> TRUE, effects |-> <<>>, value |-> Undef],
      [key |-> Str(<<"e","4">>), name |-> Undef, description |-> Undef,
       hasEffects |-> TRUE, effects |-> <<DropShadow>>, value |-> Undef] }

NormStart ==
    /\ npc = "colors"
    /\ colors = <<>>
    /\ text = <<>>
    /\ effects = <<>>
    /\ normalized = InitialNormalized

RecordsTaken == Len(colors) + Len(text) + Len(effects)

\* normalizeColors, one record (normalize.js:35-37, 66-89)
NormalizeColorsStep ==
    /\ npc = "colors"
    /\ RecordsTaken < MaxRecords
    /\ \E color \in ColorRecords :
         LET res == NormalizeColor(normalized, <<kColors>>, color)
         IN  /\ colors' = Append(colors, color)
             /\ normalized' = res.store
             /\ npc' = IF res.threw THEN "threw" ELSE "colors"
    /\ UNCHANGED <<text, effects, notNorm>>

\* the colour list is exhausted (normalize.js:36, 41)
NormalizeColorsReturn ==
    /\ npc = "colors"
    /\ npc' = "text"
    /\ UNCHANGED <<colors, text, effects, normalized, notNorm>>

\* normalizeTypography, one record (normalize.js:41-46, 107-165)
NormalizeTypographyStep ==
    /\ npc = "text"
    /\ RecordsTaken < MaxRecords
    /\ \E style \in TextRecords :
         LET res == NormalizeTextStyle(normalized, <<kTypography>>, style)
         IN  /\ text' = Append(text, style)
             /\ normalized' = res.store
             /\ npc' = IF res.threw THEN "threw" ELSE "text"
    /\ UNCHANGED <<colors, effects, notNorm>>

NormalizeTypographyReturn ==
    /\ npc = "text"
    /\ npc' = "effects"
    /\ UNCHANGED <<colors, text, effects, normalized, notNorm>>

\* normalizeEffects, one record (normalize.js:49-52, 178-199)
NormalizeEffectsStep ==
    /\ npc = "effects"
    /\ RecordsTaken < MaxRecords
    /\ \E effect \in EffectRecords :
         LET res == NormalizeEffect(normalized, <<kEffects>>, effect)
         IN  /\ effects' = Append(effects, effect)
             /\ normalized' = res.store
             /\ npc' = IF res.threw THEN "threw" ELSE "effects"
    /\ UNCHANGED <<colors, text, notNorm>>

\* return normalized (normalize.js:54)
NormalizeEffectsReturn ==
    /\ npc = "effects"
    /\ npc' = "done"
    /\ UNCHANGED <<colors, text, effects, normalized, notNorm>>

NormNext ==
    \/ NormalizeColorsStep
    \/ NormalizeColorsReturn
    \/ NormalizeTypographyStep
    \/ NormalizeTypographyReturn
    \/ NormalizeEffectsStep
    \/ NormalizeEffectsReturn


-----------------------------------------------------------------------------
(* Properties of normalizeTokens *)

\* the test pipeline.js makes of a node: an object whose `value` is not undefined
\* (pipeline.js:174-176, 202-204)
IsTokenEntry(store, i) ==
    /\ store[i].val.t = "object"
    /\ \E j \in 1..Len(store) : /\ store[j].path = Append(store[i].path, kValue)
                                /\ store[j].val.t # "undefined"

TokenEntries(store) == {i \in 1..Len(store) : IsTokenEntry(store, i)}

ParsedPath(rec) == parseFigmaName(rec.name.s)

Named(recs) == {i \in 1..Len(recs) : recs[i].name.t = "string"}

\* two consumed records of one collection whose names parse to equal paths
EqualPathPairs(recs) ==
    {pr \in Named(recs) \X Named(recs) :
        pr[1] < pr[2] /\ ParsedPath(recs[pr[1]]) = ParsedPath(recs[pr[2]])}

\* two consumed records of one collection, one path a strict prefix of the other
PrefixPathPairs(recs) ==
    {pr \in Named(recs) \X Named(recs) :
        IsStrictPrefix(ParsedPath(recs[pr[1]]), ParsedPath(recs[pr[2]]))}

C2_TokenXorContainer ==
    \A i, j \in TokenEntries(normalized) :
        ~IsStrictPrefix(normalized[i].path, normalized[j].path)

\* the node the tree holds for the last of the records parsing to path p
HoldsLastWrite(store, obj, recs, p, expectedValue(_), prefixCh) ==
    LET last == CHOOSE k \in Named(recs) :
                    /\ ParsedPath(recs[k]) = p
                    /\ \A m \in Named(recs) : ParsedPath(recs[m]) = p => m <= k
        at   == obj \o p
    IN  /\ Cardinality(Indexes(store, at)) = 1
        /\ ValAt(store, at).t = "object"
        /\ ValAt(store, Append(at, kValue)) = expectedValue(recs[last])
        /\ ValAt(store, Append(at, kDescription)) =
               OrElse(recs[last].description, Str(prefixCh \o recs[last].name.s))
        /\ ValAt(store, at \o <<kSource, kFigmaKey>>) = recs[last].key
        /\ ValAt(store, at \o <<kSource, kFigmaName>>) = recs[last].name

\* C3: when two style records of one collection parse to equal paths,
\* normalization raises no error and the tree holds exactly one token at that
\* path, carrying value, description, figmaKey and figmaName of the later record.
C3_LastWriteWins ==
    /\ \A pr \in EqualPathPairs(colors) :
          /\ npc # "threw"
          /\ npc = "done" =>
                HoldsLastWrite(normalized, <<kColors>>, colors, ParsedPath(colors[pr[1]]),
                               ColorHexValue, <<"C","o","l","o","r",":"," ">>)
    /\ \A pr \in EqualPathPairs(effects) :
          /\ npc # "threw"
          /\ npc = "done" =>
                HoldsLastWrite(normalized, <<kEffects>>, effects, ParsedPath(effects[pr[1]]),
                               EffectValue, <<"E","f","f","e","c","t",":"," ">>)

\* tokens of the subtree at obj that carry the provenance key of record rec
TokensFrom(store, obj, rec) ==
    {i \in TokenEntries(store) :
        /\ IsPrefix(obj, store[i].path)
        /\ ValAt(store, store[i].path \o <<kSource, kFigmaKey>>) = rec.key}

MalformedColor(rec)  == rec.name.t # "string" \/ ColorHexValue(rec) = Undef
MalformedEffect(rec) == rec.name.t # "string" \/ EffectValue(rec) = Undef
MalformedText(rec)   ==
    \/ rec.name.t # "string"
    \/ \E f \in {"fontFamily", "fontSize", "fontWeight", "lineHeight"} : ~Truthy(rec[f])

TextProperty(f) ==
    CASE f = "fontFamily" -> kFontFamily
      [] f = "fontSize"   -> kFontSize
      [] f = "fontWeight" -> kFontWeight
      [] OTHER            -> kLineHeight

\* C4: for any payload with a malformed or partially populated record,
\* normalizeTokens completes without throwing and the malformed record
\* contributes no token for its missing sub-properties.
C4_MalformedTolerated ==
    (\/ \E i \in 1..Len(colors)  : MalformedColor(colors[i])
     \/ \E i \in 1..Len(text)    : MalformedText(text[i])
     \/ \E i \in 1..Len(effects) : MalformedEffect(effects[i]))
    => /\ npc # "threw"
       /\ npc = "done" =>
            /\ \A i \in 1..Len(colors) :
                  ColorHexValue(colors[i]) = Undef =>
                      TokensFrom(normalized, <<kColors>>, colors[i]) = {}
            /\ \A i \in 1..Len(effects) :
                  EffectValue(effects[i]) = Undef =>
                      TokensFrom(normalized, <<kEffects>>, effects[i]) = {}
            /\ \A i \in 1..Len(text) :
                  \A f \in {"fontFamily", "fontSize", "fontWeight", "lineHeight"} :
                      ~Truthy(text[i][f]) =>
                          TokensFrom(normalized, <<kTypography, TextProperty(f)>>, text[i]) = {}

\* C29: text style records whose parsed paths differ never overwrite each other:
\* the token a record has contributed for a property is in the tree unless a
\* later record with an equal parsed path has replaced it.
C29_DifferentPathsKept ==
    \A i \in Named(text) :
        \A f \in {"fontFamily", "fontSize", "fontWeight", "lineHeight"} :
            (/\ Truthy(text[i][f])
             /\ \A j \in Named(text) :
                   j > i => ParsedPath(text[j]) # ParsedPath(text[i]))
            => TokensFrom(normalized, <<kTypography, TextProperty(f)>>, text[i]) # {}

-----------------------------------------------------------------------------
(* runPipeline (pipeline.js:27-163) *)

\* the platforms of style-dictionary.config.js and the files each one writes
Platforms == {"css", "css-custom", "js", "scss", "json", "docs", "android", "ios"}

PlatformFiles(p) ==
    CASE p = "css"        -> {"output/css/variables.css"}
      [] p = "css-custom" -> {"output/css/tokens.css"}
      [] p = "js"         -> {"output/js/tokens.js", "output/js/tokens.module.js"}
      [] p = "scss"       -> {"output/scss/_variables.scss"}
      [] p = "json"       -> {"output/json/tokens.json", "output/json/tokens-flat.json"}
      [] p = "docs"       -> {"output/docs/tokens-documentation.json",
                              "output/docs/tokens-documentation.md",
                              "output/docs/tokens-documentation.html"}
      [] p = "android"    -> {"output/android/colors.xml", "output/android/dimens.xml"}
      [] OTHER            -> {"output/ios/StyleDictionaryColor.swift"}

\* the `filter: { type }` of a configured file; "" when the file has none
FileFilter(f) ==
    CASE f = "output/android/colors.xml"              -> "color"
      [] f = "output/android/dimens.xml"              -> "dimension"
      [] f = "output/ios/StyleDictionaryColor.swift"  -> "color"
      [] OTHER                                        -> ""

\* the files a successful build of platform p creates: Style Dictionary creates no
\* file for which the filter leaves no token ("No tokens for <file>. File not created.")
FilesWritten(p, types) ==
    {f \in PlatformFiles(p) : FileFilter(f) = "" \/ FileFilter(f) \in types}

\* expectedFiles of verifyOutputs (pipeline.js:230-244)
expectedFiles ==
    << "output/css/variables.css", "output/css/tokens.css", "output/js/tokens.js",
       "output/js/tokens.module.js", "output/scss/_variables.scss", "output/json/tokens.json",
       "output/json/tokens-flat.json", "output/docs/tokens-documentation.json",
       "output/docs/tokens-documentation.md", "output/docs/tokens-documentation.html",
       "output/android/colors.xml", "output/android/dimens.xml",
       "output/ios/StyleDictionaryColor.swift" >>

\* verifyOutputs (pipeline.js:229-262): the expected files that exist; a missing
\* file is skipped in the catch
verifyOutputs(fs) == SelectSeq(expectedFiles, LAMBDA f : f \in fs)

\* the step whose spinner.start follows the success of `step` (pipeline.js:44-145)
StepAfterSwapped(step) ==
    CASE step = "init"       -> "extract"
      [] step = "extract"    -> "write"
      [] step = "write"      -> "build"
      [] step = "build"      -> "config"
      [] step = "config"     -> "statistics"
      [] step = "statistics" -> "verify"
      [] OTHER               -> "returned"

StepAfter(step) ==
    CASE step = "init"       -> "extract"
      [] step = "extract"    -> "write"
      [] step = "write"      -> "config"
      [] step = "config"     -> "build"
      [] step = "build"      -> "statistics"
      [] step = "statistics" -> "verify"
      [] OTHER               -> "returned"

NoSteps == [s \in {} |-> [success |-> TRUE]]

\* results.steps[step] = { success: true, ... } (durations are not modelled)
RecordSuccess(res, step, info) ==
    [res EXCEPT !.steps = [s \in DOMAIN res.steps \cup {step} |->
                              IF s = step THEN info ELSE res.steps[s]]]

\* the state at the first statement of the try block; the output directory is
\* empty or holds the files of an earlier run
PipeStart ==
    /\ ppc = "init"
    /\ results = [success |-> FALSE, steps |-> NoSteps, errors |-> <<>>]
    /\ spinnerLog = <<>>
    /\ tokenTypes = {}
    /\ platform = [p \in Platforms |-> "idle"]
    /\ files \in {{}, {expectedFiles[i] : i \in 1..Len(expectedFiles)}}

\* spinner.start of step 1 (pipeline.js:46)
BeginPipeline ==
    /\ ppc = "init"
    /\ ppc' = StepAfter("init")
    /\ spinnerLog' = Append(spinnerLog, StepAfter("init"))
    /\ UNCHANGED <<results, tokenTypes, platform, files, notPipe>>

\* the catch block returning results instead of throwing
FailReturning(step) ==
    /\ ppc' = "returned"
    /\ results' = [results EXCEPT !.errors = Append(@, step)]
    /\ UNCHANGED <<spinnerLog, notPipe>>

\* a step's await rejects: the catch block (pipeline.js:146-160)
Fail(step) ==
    /\ ppc' = "thrown"
    /\ results' = [results EXCEPT !.errors = Append(@, step)]
    /\ UNCHANGED <<spinnerLog, notPipe>>

\* extractTokens resolves (pipeline.js:49-61); the tokens hold some types
ExtractSucceeds ==
    /\ ppc = "extract"
    /\ \E types \in SUBSET {"color", "dimension"} : tokenTypes' = types
    /\ results' = RecordSuccess(results, "extract", [success |-> TRUE])
    /\ ppc' = StepAfter("extract")
    /\ spinnerLog' = Append(spinnerLog, StepAfter("extract"))
    /\ UNCHANGED <<platform, files, notPipe>>

ExtractFails ==
    /\ ppc = "extract"
    /\ Fail("extract")
    /\ UNCHANGED <<tokenTypes, platform, files>>

\* mkdir and writeFile resolve (pipeline.js:64-78)
WriteSucceeds ==
    /\ ppc = "write"
    /\ results' = RecordSuccess(results, "write", [success |-> TRUE])
    /\ ppc' = StepAfter("write")
    /\ spinnerLog' = Append(spinnerLog, StepAfter("write"))
    /\ UNCHANGED <<tokenTypes, platform, files, notPipe>>

WriteFails ==
    /\ ppc = "write"
    /\ Fail("write")
    /\ UNCHANGED <<tokenTypes, platform, files>>

\* the configuration loads (pipeline.js:81-96); sd.buildAllPlatforms() starts the
\* build of every platform
ConfigSucceeds ==
    /\ ppc = "config"
    /\ results' = RecordSuccess(results, "config", [success |-> TRUE])
    /\ ppc' = StepAfter("config")
    /\ spinnerLog' = Append(spinnerLog, StepAfter("config"))
    /\ platform' = [p \in Platforms |-> "building"]
    /\ UNCHANGED <<tokenTypes, files, notPipe>>

ConfigFails ==
    /\ ppc = "config"
    /\ Fail("config")
    /\ UNCHANGED <<tokenTypes, platform, files>>

Exited == ppc \in {"exit0", "exit1"}

\* one platform's build ends, with its files written or with an error; the builds
\* run on after runPipeline has thrown, until the process exits
PlatformBuilt(p) ==
    /\ ~Exited
    /\ platform[p] = "building"
    /\ platform' = [platform EXCEPT ![p] = "built"]
    /\ files' = files \cup FilesWritten(p, tokenTypes)
    /\ UNCHANGED <<ppc, results, spinnerLog, tokenTypes, notPipe>>

PlatformFailed(p) ==
    /\ ~Exited
    /\ platform[p] = "building"
    /\ platform' = [platform EXCEPT ![p] = "failed"]
    /\ UNCHANGED <<ppc, results, spinnerLog, tokenTypes, files, notPipe>>

\* await sd.buildAllPlatforms() resolves once every platform is built
\* (pipeline.js:96-107)
BuildSucceeds ==
    /\ ppc = "build"
    /\ \A p \in Platforms : platform[p] = "built"
    /\ results' = RecordSuccess(results, "build", [success |-> TRUE])
    /\ ppc' = StepAfter("build")
    /\ spinnerLog' = Append(spinnerLog, StepAfter("build"))
    /\ UNCHANGED <<tokenTypes, platform, files, notPipe>>

\* await sd.buildAllPlatforms() rejects as soon as one platform has failed
BuildFails ==
    /\ ppc = "build"
    /\ \E p \in Platforms : platform[p] = "failed"
    /\ Fail("build")
    /\ UNCHANGED <<tokenTypes, platform, files>>

\* generateStatistics returns (pipeline.js:110-122); it has no failing path
StatisticsSucceeds ==
    /\ ppc = "statistics"
    /\ results' = RecordSuccess(results, "statistics", [success |-> TRUE])
    /\ ppc' = StepAfter("statistics")
    /\ spinnerLog' = Append(spinnerLog, StepAfter("statistics"))
    /\ UNCHANGED <<tokenTypes, platform, files, notPipe>>

\* verifyOutputs returns, the step is recorded, results.success is set and results
\* is returned (pipeline.js:125-144, 162)
VerifySucceeds ==
    /\ ppc = "verify"
    /\ results' = [RecordSuccess(results, "verify",
                       [success |-> TRUE, fileCount |-> Len(verifyOutputs(files))])
                   EXCEPT !.success = TRUE]
    /\ ppc' = StepAfter("verify")
    /\ UNCHANGED <<spinnerLog, tokenTypes, platform, files, notPipe>>

\* main, the caller on the command line: process.exit(0) after runPipeline has
\* returned (pipeline.js:341-342)
MainExitsZero ==
    /\ ppc = "returned"
    /\ ppc' = "exit0"
    /\ UNCHANGED <<results, spinnerLog, tokenTypes, platform, files, notPipe>>

\* main: process.exit(1) in the catch of the rethrown error (pipeline.js:343-345)
MainExitsOne ==
    /\ ppc = "thrown"
    /\ ppc' = "exit1"
    /\ UNCHANGED <<results, spinnerLog, tokenTypes, platform, files, notPipe>>

PipeNext ==
    \/ BeginPipeline
    \/ ExtractSucceeds
    \/ ExtractFails
    \/ WriteSucceeds
    \/ WriteFails
    \/ ConfigSucceeds
    \/ ConfigFails
    \/ \E p \in Platforms : PlatformBuilt(p)
    \/ \E p \in Platforms : PlatformFailed(p)
    \/ BuildSucceeds
    \/ BuildFails
    \/ StatisticsSucceeds
    \/ VerifySucceeds
    \/ MainExitsZero
    \/ MainExitsOne

-----------------------------------------------------------------------------
(* Properties of runPipeline *)

Ended == ppc \in {"returned", "thrown", "exit0", "exit1"}

Returned == ppc \in {"returned", "exit0"}

StepSucceeded(step) ==
    step \in DOMAIN results.steps /\ results.steps[step].success

\* C5: when the build of one platform fails, the run still ends by returning a
\* combined result (here: it returns instead of throwing, and the build of every
\* other platform was attempted) rather than aborting at the failing platform.
C5_PlatformFailureIsolated ==
    (Ended /\ \E p \in Platforms : platform[p] = "failed")
        => /\ Returned
           /\ \A p \in Platforms : platform[p] # "idle"

\* C8: the steps begin in the order extract, write, config, build, statistics,
\* verify; a step has begun only if every earlier step has recorded success; and
\* results.success is true only if all six steps have recorded success.
C8_StepsInOrder ==
    LET order == <<"extract", "write", "config", "build", "statistics", "verify">>
    IN  /\ Len(spinnerLog) <= Len(order)
        /\ \A i \in 1..Len(spinnerLog) :
              /\ spinnerLog[i] = order[i]
              /\ \A j \in 1..(i - 1) : StepSucceeded(order[j])
        /\ results.success => \A i \in 1..Len(order) : StepSucceeded(order[i])

\* a run that went through all six steps and reported success
C8_Witness ==
    /\ ppc = "returned"
    /\ results.success
    /\ Len(spinnerLog) = 6

\* C9: whenever the run reports success with the verify step recorded successful,
\* every one of the 13 expected output files exists.
C9_SuccessMeansAllFilesExist ==
    (results.success /\ StepSucceeded("verify"))
        => \A i \in 1..Len(expectedFiles) : expectedFiles[i] \in files

Thrown == ppc \in {"thrown", "exit1"}

\* C27: when a step of runPipeline fails, no later step is started (the failed
\* step stays the last one announced), results.success stays false, the error's
\* message is appended to results.errors and the error is rethrown instead of the
\* results being returned; main then exits with status 1, and it exits with
\* status 0 only after a run in which no step failed.
C27_FailureAborts ==
    /\ results.errors # <<>> <=> Thrown
    /\ Thrown =>
          /\ ~results.success
          /\ Len(results.errors) = 1
          /\ spinnerLog # <<>>
          /\ spinnerLog[Len(spinnerLog)] = results.errors[1]
          /\ ~StepSucceeded(results.errors[1])
    /\ ppc = "exit0" =>
          /\ results.success
          /\ \A i \in 1..Len(spinnerLog) : StepSucceeded(spinnerLog[i])

\* the build failed at one platform, runPipeline threw and main exited with 1
C27_Witness ==
    /\ ppc = "exit1"
    /\ results.errors = <<"build">>
    /\ spinnerLog = <<"extract", "write", "config", "build">>
    /\ \E p \in Platforms : platform[p] = "failed"

-----------------------------------------------------------------------------
(* The Figma API client (unnamed/part_000) *)

RATE_LIMIT_DELAY == 250

\* time advances in steps of half the delay, from a clock reading at which the
\* first call of applyRateLimit does not have to wait
Quantum == RATE_LIMIT_DELAY \div 2
StartTime == 2 * RATE_LIMIT_DELAY
MaxTicks == 5
MaxStyles == 2

\* the two promise chains fetchFileTokens passes to Promise.all
Chains == {"styles", "variables"}

At(pc, req) == [pc |-> pc, req |-> req]

\* the state applyRateLimit and the request that follows it read and write
RateState == [chain |-> chain, wakeAt |-> wakeAt,
              lastRequestTime |-> lastRequestTime, sent |-> sent]

\* `lastRequestTime = Date.now()` (part_000:36), after which the caller's
\* client.get starts the request
SendRequest(st, c, req) ==
    [st EXCEPT !.lastRequestTime = now,
               !.chain[c] = At("inflight", req),
               !.sent = Append(@, [by |-> c, req |-> req, at |-> now])]

\* applyRateLimit called by chain c ahead of request req (part_000:27-37): up to
\* the await of the timer when it has to wait, through to the request otherwise
applyRateLimit(st, c, req) ==
    LET timeSinceLastRequest == now - st.lastRequestTime
        waitTime == RATE_LIMIT_DELAY - timeSinceLastRequest
    IN  IF timeSinceLastRequest < RATE_LIMIT_DELAY
        THEN [st EXCEPT !.chain[c] = At("waiting", req),
                        !.wakeAt[c] = now + waitTime]
        ELSE SendRequest(st, c, req)

\* createFigmaClient throws without a token (part_000:43-51): fetchFileStyles
\* rejects, fetchFileVariables rejects and its .catch supplies the default
NoClient(st) ==
    [st EXCEPT !.chain = [c \in Chains |->
                             IF c = "styles" THEN At("failed", "") ELSE At("done", "")]]

Commit(st) ==
    /\ chain' = st.chain
    /\ wakeAt' = st.wakeAt
    /\ lastRequestTime' = st.lastRequestTime
    /\ sent' = st.sent

RateStart ==
    /\ now = StartTime
    /\ lastRequestTime = 0
    /\ hasToken \in BOOLEAN
    /\ chain = [c \in Chains |-> At("idle", "")]
    /\ wakeAt = [c \in Chains |-> 0]
    /\ stylesLeft = 0
    /\ sent = <<>>

\* fetchFileTokens (part_000:245-262): fetchFileStyles runs to its first await,
\* then fetchFileVariables runs to its first await
FetchFileTokens ==
    /\ \A c \in Chains : chain[c].pc = "idle"
    /\ IF hasToken
       THEN Commit(applyRateLimit(applyRateLimit(RateState, "styles", "file"),
                                  "variables", "variables"))
       ELSE Commit(NoClient(RateState))
    /\ UNCHANGED <<now, hasToken, stylesLeft, notRate>>

\* the clock advances; a timer that is due fires before the clock passes it
Tick ==
    /\ now < StartTime + MaxTicks * Quantum
    /\ \A c \in Chains : chain[c].pc = "waiting" => wakeAt[c] > now
    /\ LET due == {wakeAt[c] : c \in {d \in Chains : chain[d].pc = "waiting"}}
                    \cup {now + Quantum}
       IN  now' = CHOOSE t \in due : \A u \in due : t <= u
    /\ UNCHANGED <<lastRequestTime, hasToken, chain, wakeAt, stylesLeft, sent, notRate>>

\* the timer of applyRateLimit fires and the chain goes on to its request
\* (part_000:33-36)
TimerFires(c) ==
    /\ chain[c].pc = "waiting"
    /\ wakeAt[c] <= now
    /\ Commit(SendRequest(RateState, c, chain[c].req))
    /\ UNCHANGED <<now, hasToken, stylesLeft, notRate>>

\* GET /files/:key answers (part_000:81-89): on to the styles request
FileResponse ==
    /\ chain["styles"] = At("inflight", "file")
    /\ Commit(applyRateLimit(RateState, "styles", "styles"))
    /\ UNCHANGED <<now, hasToken, stylesLeft, notRate>>

\* the next iteration of the loop of fetchStyleDetails, or its return
\* (part_000:133-136, 196-198)
NextStyle(st, left) ==
    IF left = 0
    THEN [st EXCEPT !.chain["styles"] = At("done", "")]
    ELSE applyRateLimit(st, "styles", "node")

\* GET /files/:key/styles answers with n styles (part_000:89-96)
StylesResponse ==
    /\ chain["styles"] = At("inflight", "styles")
    /\ \E n \in 0..MaxStyles :
         /\ stylesLeft' = n
         /\ Commit(NextStyle(RateState, n))
    /\ UNCHANGED <<now, hasToken, notRate>>

\* GET /files/:key/nodes answers or fails; a failure is caught inside the loop
\* (part_000:137-193)
NodeResponse ==
    /\ chain["styles"] = At("inflight", "node")
    /\ stylesLeft' = stylesLeft - 1
    /\ Commit(NextStyle(RateState, stylesLeft - 1))
    /\ UNCHANGED <<now, hasToken, notRate>>

\* the file or the styles request fails: fetchFileStyles rethrows (part_000:108-111)
StylesRequestFails ==
    /\ chain["styles"].pc = "inflight"
    /\ chain["styles"].req \in {"file", "styles"}
    /\ chain' = [chain EXCEPT !["styles"] = At("failed", "")]
    /\ UNCHANGED <<now, lastRequestTime, hasToken, wakeAt, stylesLeft, sent, notRate>>

\* the variables request answers, or fails and the .catch of fetchFileTokens
\* supplies the default (part_000:221-236, 251)
VariablesResponse ==
    /\ chain["variables"] = At("inflight", "variables")
    /\ chain' = [chain EXCEPT !["variables"] = At("done", "")]
    /\ UNCHANGED <<now, lastRequestTime, hasToken, wakeAt, stylesLeft, sent, notRate>>

RateNext ==
    \/ FetchFileTokens
    \/ Tick
    \/ \E c \in Chains : TimerFires(c)
    \/ FileResponse
    \/ StylesResponse
    \/ NodeResponse
    \/ StylesRequestFails
    \/ VariablesResponse

-----------------------------------------------------------------------------
(* Properties of the Figma API client *)

\* C6: at every moment at most one request to the Figma API is in flight.
C6_OneRequestInFlight ==
    Cardinality({c \in Chains : chain[c].pc = "inflight"}) <= 1

\* C7: any two requests sent to the Figma API start at least RATE_LIMIT_DELAY
\* apart.
C7_MinimumSpacing ==
    \A i \in 1..Len(sent) : \A j \in (i + 1)..Len(sent) :
        sent[j].at - sent[i].at >= RATE_LIMIT_DELAY

-----------------------------------------------------------------------------
(* The custom transforms name/semantic and attribute/category
   (custom-transforms.js) *)

\* String.prototype.toLowerCase
LowerOf(c) ==
    IF InSeq(c, UpperCh)
    THEN LowerCh[CHOOSE i \in 1..Len(UpperCh) : UpperCh[i] = c]
    ELSE c

ToLowerCase(s) == [i \in 1..Len(s) |-> LowerOf(s[i])]

\* .replace(/[^a-z0-9-]/g, '-') (custom-transforms.js:35)
ReplaceSpecialChars(s) ==
    [i \in 1..Len(s) |->
        IF InSeq(s[i], LowerCh) \/ InSeq(s[i], DigitCh) \/ s[i] = "-" THEN s[i] ELSE "-"]

\* repeated dashes left as they are
KeepDashes(str) == str

\* .replace(/-+/g, '-') (custom-transforms.js:36)
RECURSIVE CollapseDashes(_)
CollapseDashes(s) ==
    IF Len(s) < 2 THEN s
    ELSE IF s[1] = "-" /\ s[2] = "-" THEN CollapseDashes(Tail(s))
    ELSE <<s[1]>> \o CollapseDashes(Tail(s))

\* .replace(/^-|-$/g, '') (custom-transforms.js:37): one dash at the start and
\* one at the end
StripEdgeDash(s) ==
    LET t == IF s # <<>> /\ Head(s) = "-" THEN Tail(s) ELSE s
    IN  IF t # <<>> /\ t[Len(t)] = "-" THEN SubSeq(t, 1, Len(t) - 1) ELSE t

tFontFamily == <<"f","o","n","t","F","a","m","i","l","y">>
tFontSize   == <<"f","o","n","t","S","i","z","e">>
tFontWeight == <<"f","o","n","t","W","e","i","g","h","t">>
tLineHeight == <<"l","i","n","e","H","e","i","g","h","t">>

\* getTypePrefix (custom-transforms.js:175-187); a token without type has type <<>>
getTypePrefix(type) ==
    CASE type = tColor      -> tColor
      [] type = tDimension  -> <<"s","i","z","e">>
      [] type = tFontFamily -> <<"f","o","n","t">>
      [] type = tFontSize   -> <<"f","o","n","t","-","s","i","z","e">>
      [] type = tFontWeight -> <<"f","o","n","t","-","w","e","i","g","h","t">>
      [] type = tLineHeight -> <<"l","i","n","e","-","h","e","i","g","h","t">>
      [] type = tShadow     -> tShadow
      [] type = tNumber     -> tNumber
      [] OTHER              -> <<>>

\* the parts of name/semantic, were they taken from the token's current name
PartsOfName(tok) ==
    LET typePrefix == getTypePrefix(tok.type)
        parts == <<tok.name>>
    IN  IF typePrefix # <<>> /\ parts[1] # typePrefix THEN <<typePrefix>> \o parts ELSE parts

\* parts, after the prefix is added (custom-transforms.js:23-29)
PartsOfPath(tok) ==
    LET typePrefix == getTypePrefix(tok.type)
        parts == tok.path
    IN  IF typePrefix # <<>> /\ parts[1] # typePrefix THEN <<typePrefix>> \o parts ELSE parts

\* the transform of name/semantic (custom-transforms.js:20-38)
NameSemantic(tok) ==
    StripEdgeDash(CollapseDashes(ReplaceSpecialChars(ToLowerCase(
        Join(SelectSeq(PartsOfPath(tok), LAMBDA part : part # <<>>), <<"-">>)))))

kSpacing      == <<"s","p","a","c","i","n","g">>
kShadows      == <<"s","h","a","d","o","w","s">>
kBorderRadius == <<"b","o","r","d","e","r","R","a","d","i","u","s">>

\* determineCategory (custom-transforms.js:192-202)
determineCategory(tok) ==
    LET firstPath == tok.path[1]
    IN  CASE firstPath = kColors                -> Str(tColor)
          [] firstPath = kSpacing               -> Str(<<"s","p","a","c","e">>)
          [] firstPath = kTypography            -> Str(kTypography)
          [] firstPath \in {kEffects, kShadows} -> Str(<<"e","f","f","e","c","t">>)
          [] firstPath = kBorderRadius          -> Str(<<"r","a","d","i","u","s">>)
          [] OTHER                              -> Str(firstPath)

\* determineSubcategory (custom-transforms.js:207-210)
determineSubcategory(tok) ==
    IF Len(tok.path) < 2 THEN Undef ELSE Str(tok.path[2])

states ==
    { <<"h","o","v","e","r">>, <<"a","c","t","i","v","e">>, <<"f","o","c","u","s">>,
      <<"d","i","s","a","b","l","e","d">>, <<"s","e","l","e","c","t","e","d">>,
      <<"p","r","e","s","s","e","d">> }

\* determineState (custom-transforms.js:215-224)
determineState(tok) ==
    LET stateName == tok.path[Len(tok.path)]
    IN  IF ToLowerCase(stateName) \in states THEN Str(ToLowerCase(stateName)) ELSE Undef

\* `key: value` in an object literal, or one key copied by a spread: an existing
\* key keeps its place and takes the new value, a new key goes last
AssignKey(obj, key, val) ==
    IF \E i \in 1..Len(obj) : obj[i].key = key
    THEN [i \in 1..Len(obj) |-> IF obj[i].key = key THEN [key |-> key, val |-> val] ELSE obj[i]]
    ELSE Append(obj, [key |-> key, val |-> val])

\* `...source` into target (custom-transforms.js:60)
RECURSIVE Spread(_, _)
Spread(target, source) ==
    IF source = <<>> THEN target
    ELSE Spread(AssignKey(target, Head(source).key, Head(source).val), Tail(source))

\* the transform of attribute/category (custom-transforms.js:58-65)
AttributeCategory(tok) ==
    AssignKey(AssignKey(AssignKey(Spread(<<>>, tok.attributes),
        "category", determineCategory(tok)),
        "subcategory", determineSubcategory(tok)),
        "state", determineState(tok))

MaxPathLen == 2
MaxApplications == 4

pPrimary == <<"p","r","i","m","a","r","y">>
pHover   == <<"H","o","v","e","r">>
pOdd     == <<"-","x","_"," ","5">>

\* path segments: the category keys, a segment equal to a type prefix, a state in
\* capitals, a segment with characters the name may not keep
Segments == {kColors, tColor, pPrimary, pHover, pOdd}

RECURSIVE PathsOfLength(_)
PathsOfLength(n) ==
    IF n = 0 THEN {<<>>}
    ELSE {Append(q, seg) : q \in PathsOfLength(n - 1), seg \in Segments}

TokenPaths == UNION {PathsOfLength(n) : n \in 1..MaxPathLen}

TokenTypes == {tColor, tDimension, <<>>}

\* attributes a token may carry before the custom transforms run
AttributeBags ==
    { <<>>,
      << [key |-> "category", val |-> Str(<<"c","t","i">>)],
         [key |-> "item", val |-> Str(pPrimary)] >> }

\* a token of the dictionary: its name starts as its last key
XformStart ==
    /\ \E path \in TokenPaths, type \in TokenTypes, attrs \in AttributeBags :
         token = [path |-> path, type |-> type, name |-> path[Len(path)], attributes |-> attrs]
    /\ applied = <<>>

\* Style Dictionary applies name/semantic and stores the result as token.name
ApplyNameSemantic ==
    /\ Len(applied) < MaxApplications
    /\ LET result == NameSemantic(token)
       IN  /\ token' = [token EXCEPT !.name = result]
           /\ applied' = Append(applied, [transform |-> "name/semantic", result |-> result])
    /\ UNCHANGED notXform

\* Style Dictionary applies attribute/category and merges the result into
\* token.attributes
ApplyAttributeCategory ==
    /\ Len(applied) < MaxApplications
    /\ LET result == AttributeCategory(token)
       IN  /\ token' = [token EXCEPT !.attributes = Spread(token.attributes, result)]
           /\ applied' = Append(applied, [transform |-> "attribute/category", result |-> token'.attributes])
    /\ UNCHANGED notXform

XformNext ==
    \/ ApplyNameSemantic
    \/ ApplyAttributeCategory

-----------------------------------------------------------------------------
(* Properties of the custom transforms *)

\* C10: name/semantic and attribute/category are idempotent: applied to a token
\* already transformed by it, each gives the same name (the same attribute bag) as
\* its first application.
C10_TransformsIdempotent ==
    \A i \in 1..Len(applied) : \A j \in (i + 1)..Len(applied) :
        applied[i].transform = applied[j].transform
            => applied[i].result = applied[j].result

\* both transforms applied twice to a token of two segments that carries a state,
\* a type prefix and earlier attributes
C10_Witness ==
    /\ Len(token.path) = 2
    /\ getTypePrefix(token.type) # <<>>
    /\ token.attributes # <<>>
    /\ \E i \in 1..Len(token.attributes) :
          token.attributes[i].key = "state" /\ token.attributes[i].val # Undef
    /\ token.name # token.path[2]
    /\ \E i, j \in 1..Len(applied) :
          i < j /\ applied[i].transform = "name/semantic" /\ applied[j].transform = "name/semantic"
    /\ \E i, j \in 1..Len(applied) :
          i < j /\ applied[i].transform = "attribute/category"
                /\ applied[j].transform = "attribute/category"

-----------------------------------------------------------------------------
(* Colour conversion: hexToRgb of the mock adapter, normalizeColors, rgbToHex
   (normalize.js) *)

\* the factor between a channel in 0..1 and a byte (normalize.js:73, 513-515)
ChannelMax == 255

\* parseInt(c, 16) of one hex digit, in either case
HexDigitValue(c) ==
    IF InSeq(c, HexCh) THEN (CHOOSE i \in 1..Len(HexCh) : HexCh[i] = c) - 1
    ELSE (CHOOSE i \in 1..Len(LowerCh) : LowerCh[i] = c) + 9

\* parseInt(pair, 16) of two hex digits
HexPairValue(pair) == 16 * HexDigitValue(pair[1]) + HexDigitValue(pair[2])

\* color.a of a Figma colour: absent, or a rational
NoAlpha == [has |-> FALSE, num |-> 1, den |-> 1]
Alpha(n, d) == [has |-> TRUE, num |-> n, den |-> d]

Rgba(r, g, b, a) == [present |-> TRUE, r |-> r, g |-> g, b |-> b, a |-> a]

\* hexToRgb (normalize.js:509-519), for a string of six hex digits with or without #
hexToRgb(hex) ==
    LET h == IF hex # <<>> /\ Head(hex) = "#" THEN Tail(hex) ELSE hex
    IN  Rgba(Rat(HexPairValue(SubSeq(h, 1, 2)), ChannelMax),
             Rat(HexPairValue(SubSeq(h, 3, 4)), ChannelMax),
             Rat(HexPairValue(SubSeq(h, 5, 6)), ChannelMax),
             Alpha(1, 1))

nPrimary500 == <<"p","r","i","m","a","r","y","/","5","0","0">>
kColorPrimary500 == <<"c","o","l","o","r","-","p","r","i","m","a","r","y","-","5","0","0">>

\* the record extractColors pushes for the colour token `primary/500` whose value
\* is hex (normalize.js:401-413)
MockColorRecord(hex) ==
    [key |-> Str(kColorPrimary500), name |-> Str(nPrimary500), color |-> hexToRgb(hex),
     value |-> Str(hex), description |-> Str(<<>>)]

\* a FILL style record of fetchStyleDetails (part_000:146-160)
FigmaColorRecord(rgba) ==
    [key |-> Str(<<"k","1">>), name |-> Str(nPrimary500), color |-> rgba,
     value |-> Undef, description |-> Str(<<>>)]

\* two hex digits of a byte, in capitals or in small letters
HexPair(v, small) ==
    LET digit(d) == IF small /\ d >= 10 THEN LowerCh[d - 9] ELSE HexCh[d + 1]
    IN  <<digit(v \div 16), digit(v % 16)>>

\* bytes the green and blue channels are drawn from; red takes every byte
SideBytes == {0, 127, ChannelMax}

\* valid 6-digit hex colours: with and without #, in capitals and in small letters
HexInputs ==
    { (IF hash THEN <<"#">> ELSE <<>>) \o HexPair(r, small) \o HexPair(g, small) \o HexPair(b, small) :
        r \in 0..ChannelMax, g \in SideBytes, b \in {0, ChannelMax},
        small \in BOOLEAN, hash \in BOOLEAN }

\* channels in [0,1]: the byte fractions and the quarters (products with 255 that
\* floating point holds exactly at the rounding ties)
ChannelValues == {Rat(k, ChannelMax) : k \in 0..ChannelMax} \cup {Rat(1, 4), Rat(1, 2), Rat(3, 4)}

SideChannels == {Rat(0, 1), Rat(1, 2), Rat(1, 1)}

AlphaValues == {NoAlpha, Alpha(1, 1), Alpha(1, 2), Alpha(0, 1)}

FigmaColors ==
    { Rgba(r, g, b, a) : r \in ChannelValues \cup {Rat(1, 1)}, g \in SideChannels,
                         b \in {Rat(0, 1), Rat(1, 1)}, a \in AlphaValues }

\* normalizeColors on a list of the one record rec (normalize.js:35-37, 63-92)
NormalizeOne(rec) ==
    /\ npc = "colors"
    /\ colors = <<>>
    /\ LET res == NormalizeColor(normalized, <<kColors>>, rec)
       IN  /\ colors' = <<rec>>
           /\ normalized' = res.store
           /\ npc' = IF res.threw THEN "threw" ELSE "text"
    /\ UNCHANGED <<text, effects, notNorm>>

\* a colour style fetched from Figma is normalized
NormalizeFigmaColor == \E rgba \in FigmaColors : NormalizeOne(FigmaColorRecord(rgba))

\* a colour token of the mock adapter is turned into a record and normalized
NormalizeMockColor == \E hex \in HexInputs : NormalizeOne(MockColorRecord(hex))

ColorNext ==
    \/ NormalizeFigmaColor
    \/ NormalizeMockColor

-----------------------------------------------------------------------------
(* Properties of the colour conversion *)

\* the path of the token of colour record rec inside `normalized`
ColorTokenPath(rec) == <<kColors>> \o parseFigmaName(rec.name.s)

Distance(a, b) == IF a < b THEN b - a ELSE a - b

IsCapitalHex(x) ==
    /\ Len(x) = 7
    /\ x[1] = "#"
    /\ \A j \in 2..7 : InSeq(x[j], HexCh)

kAlpha == <<"a","l","p","h","a">>

\* C12: for every valid 6-digit hex colour x, hexToRgb followed by the scaling by
\* 255 and rgbToHex gives x back: every channel of the result is within 1 of the
\* channel of x, and an x written as # and six capital digits comes back as x.
C12_HexRoundTrip ==
    \A i \in 1..Len(colors) :
        colors[i].value.t = "string" =>
            LET x   == colors[i].value.s
                h   == IF Head(x) = "#" THEN Tail(x) ELSE x
                out == ValAt(normalized, Append(ColorTokenPath(colors[i]), kValue))
            IN  /\ out.t = "string"
                /\ Len(out.s) = 7
                /\ \A ch \in 0..2 :
                      Distance(HexPairValue(SubSeq(out.s, 2 + 2 * ch, 3 + 2 * ch)),
                               HexPairValue(SubSeq(h, 1 + 2 * ch, 2 + 2 * ch))) <= 1
                /\ IsCapitalHex(x) => out.s = x

\* the colour #AB7FFF has made the round trip
C12_Witness ==
    /\ npc = "text"
    /\ colors = <<MockColorRecord(<<"#","A","B","7","F","F","F">>)>>
    /\ ValAt(normalized, Append(ColorTokenPath(colors[1]), kValue))
          = Str(<<"#","A","B","7","F","F","F">>)

\* C13: for every colour record with channels in [0,1], normalizeColors produces a
\* token of type color whose value is # followed by six capital hex digits, the
\* two-digit encodings of round(255 r), round(255 g), round(255 b).
C13_ColorTokenValue ==
    \A i \in 1..Len(colors) :
        colors[i].color.present =>
            LET c   == colors[i].color
                out == ValAt(normalized, Append(ColorTokenPath(colors[i]), kValue))
                typ == ValAt(normalized, Append(ColorTokenPath(colors[i]), kType))
            IN  /\ typ = Str(tColor)
                /\ out.t = "string"
                /\ IsCapitalHex(out.s)
                /\ HexPairValue(SubSeq(out.s, 2, 3)) = RoundDiv(ChannelMax * c.r.num, c.r.den)
                /\ HexPairValue(SubSeq(out.s, 4, 5)) = RoundDiv(ChannelMax * c.g.num, c.g.den)
                /\ HexPairValue(SubSeq(out.s, 6, 7)) = RoundDiv(ChannelMax * c.b.num, c.b.den)

\* {r:1, g:0, b:0, a:1} named primary/500 has become #FF0000 at [primary, 500]
C13_Witness ==
    /\ npc = "text"
    /\ colors = <<FigmaColorRecord(Rgba(Rat(1, 1), Rat(0, 1), Rat(0, 1), Alpha(1, 1)))>>
    /\ ValAt(normalized, <<kColors, <<"p","r","i","m","a","r","y">>, <<"5","0","0">>, kValue>>)
          = Str(<<"#","F","F","0","0","0","0">>)

\* C14: the token of a colour record whose alpha is present and not 1 records that
\* alpha; the token of a record with alpha 1 or without alpha has no alpha.
C14_AlphaRecorded ==
    \A i \in 1..Len(colors) :
        colors[i].color.present =>
            LET a == colors[i].color.a
            IN  HasProp(normalized, Append(ColorTokenPath(colors[i]), kAlpha))
                    <=> (a.has /\ a.num # a.den)

-----------------------------------------------------------------------------
(* The value transforms size/px-to-rem, color/css-rgba and value/reference
   (custom-transforms.js) *)

\* String.prototype.includes
Includes(s, sub) ==
    \E i \in 1..(Len(s) - Len(sub) + 1) : SubSeq(s, i, i + Len(sub) - 1) = sub

\* the length of the longest prefix of s made of characters of the sequence class
RECURSIVE PrefixLen(_, _)
PrefixLen(s, class) ==
    IF s # <<>> /\ InSeq(Head(s), class) THEN 1 + PrefixLen(Tail(s), class) ELSE 0

\* the value of a string of decimal digits (0 for the empty string)
RECURSIVE DigitsValue(_)
DigitsValue(ds) ==
    IF ds = <<>> THEN 0
    ELSE 10 * DigitsValue(SubSeq(ds, 1, Len(ds) - 1))
         + (CHOOSE i \in 1..Len(DigitCh) : DigitCh[i] = ds[Len(ds)]) - 1

RECURSIVE Pow10(_)
Pow10(n) == IF n = 0 THEN 1 ELSE 10 * Pow10(n - 1)

NaN == [nan |-> TRUE]

\* parseFloat (custom-transforms.js:132) of a string without sign or exponent:
\* leading whitespace is skipped, then the longest prefix digits[.digits] is read
parseFloat(str) ==
    LET t    == TrimStart(str)
        ni   == PrefixLen(t, DigitCh)
        rest == SubSeq(t, ni + 1, Len(t))
        nf   == IF rest # <<>> /\ Head(rest) = "." THEN PrefixLen(Tail(rest), DigitCh) ELSE 0
    IN  IF ni = 0 /\ nf = 0 THEN NaN
        ELSE [nan |-> FALSE,
              num |-> DigitsValue(SubSeq(t, 1, ni)) * Pow10(nf)
                        + DigitsValue(SubSeq(rest, 2, nf + 1)),
              den |-> Pow10(nf)]

kNaN == <<"N","a","N">>

\* (num / den).toFixed(3)
ToFixed3(num, den) ==
    LET h == RoundDiv(1000 * num, den)
    IN  NatToStr(h \div 1000) \o <<".">> \o
        <<DigitCh[((h \div 100) % 10) + 1], DigitCh[((h \div 10) % 10) + 1], DigitCh[(h % 10) + 1]>>

kPx  == <<"p","x">>
kRem == <<"r","e","m">>

\* baseFontSize without the option (custom-transforms.js:131)
baseFontSize == 16

\* the filter of size/px-to-rem without its test for the unit
PxToRemFilterAnyUnit(tok) ==
    /\ tok.type \in {tDimension, tFontSize}
    /\ tok.value.t = "string"

\* the filter of size/px-to-rem (custom-transforms.js:125-129)
PxToRemFilter(tok) ==
    /\ tok.type \in {tDimension, tFontSize}
    /\ tok.value.t = "string"
    /\ Includes(tok.value.s, kPx)

\* the transform of size/px-to-rem (custom-transforms.js:130-134)
PxToRem(tok) ==
    LET pxValue == parseFloat(ToStr(tok.value))
    IN  Str((IF pxValue.nan THEN kNaN
             ELSE ToFixed3(pxValue.num, pxValue.den * baseFontSize)) \o kRem)

\* the filter of color/css-rgba (custom-transforms.js:104-106)
CssRgbaFilter(tok) == tok.type = tColor /\ tok.alpha # Undef

\* the value of a string of hex digits
RECURSIVE HexValue(_)
HexValue(ds) ==
    IF ds = <<>> THEN 0
    ELSE 16 * HexValue(SubSeq(ds, 1, Len(ds) - 1)) + HexDigitValue(ds[Len(ds)])

\* parseInt(s, 16) (custom-transforms.js:112-114): the longest prefix of hex
\* digits, NaN when there is none
parseInt16(str) ==
    LET n == PrefixLen(str, HexCh \o SubSeq(LowerCh, 1, 6))
    IN  IF n = 0 THEN NaN ELSE [nan |-> FALSE, n |-> HexValue(SubSeq(str, 1, n))]

\* hex.slice(from, to) for 0 <= from <= to
Slice(str, from, to) ==
    SubSeq(str, from + 1, IF to < Len(str) THEN to ELSE Len(str))

\* `${n}` of the result of parseInt
IntOrNaNToStr(v) == IF v.nan THEN kNaN ELSE NatToStr(v.n)

\* what a transform leaves when a method is missing on its operand
TypeError == [t |-> "TypeError"]

\* the transform of color/css-rgba (custom-transforms.js:107-117); an alpha is a
\* number of hundredths, and hex.slice of a value that is no string throws
CssRgba(tok) ==
    IF tok.value.t # "string" THEN TypeError ELSE
    LET hex   == tok.value.s
        alpha == IF Truthy(tok.alpha) THEN tok.alpha.n ELSE 100
        r == parseInt16(Slice(hex, 1, 3))
        g == parseInt16(Slice(hex, 3, 5))
        b == parseInt16(Slice(hex, 5, 7))
    IN  Str(<<"r","g","b","a","(">> \o IntOrNaNToStr(r) \o <<",", " ">> \o IntOrNaNToStr(g)
            \o <<",", " ">> \o IntOrNaNToStr(b) \o <<",", " ">> \o HundredthsToStr(alpha) \o <<")">>)

\* the filter of value/reference (custom-transforms.js:143-145)
ReferenceFilter(tok) ==
    /\ tok.value.t = "string"
    /\ tok.value.s # <<>>
    /\ Head(tok.value.s) = "{"
    /\ tok.value.s[Len(tok.value.s)] = "}"

\* referencePath.replace(/\./g, '-') (custom-transforms.js:152)
DotsToDashes(str) == [i \in 1..Len(str) |-> IF str[i] = "." THEN "-" ELSE str[i]]

\* the transform of value/reference (custom-transforms.js:146-153);
\* '{'.slice(1, -1) is the empty string
Reference(tok) ==
    LET v == tok.value.s
        referencePath == IF Len(v) < 2 THEN <<>> ELSE SubSeq(v, 2, Len(v) - 1)
    IN  Str(<<"v","a","r","(","-","-">> \o DotsToDashes(referencePath) \o <<")">>)

MaxValueSteps == 2

\* token values: pixel sizes, a converted size, a size without digits, a shorthand
\* of two pixel sizes, references and strings in braces, hex colours, a number
ValueSamples ==
    { Str(<<"1","6","p","x">>), Str(<<"2","4","p","x">>), Str(<<"1",".","5","p","x">>),
      Str(<<"1","p","x">>), Str(kPx), Str(<<"1",".","0","0","0","r","e","m">>),
      Str(<<"1","p","x"," ","2","p","x"," ","a">>),
      Str(<<"{","c","o","l","o","r","s",".","p","r","i","m","a","r","y",".","5","0","0","}">>),
      Str(<<"{","a","}"," ","{","b","}">>), Str(<<"{","a",".","b">>),
      Str(<<"#","F","F","0","0","0","0">>), Str(<<"#","1","a","8","0","f","f">>),
      Num(16) }

ValueTypes == {tColor, tDimension, tFontSize, tNumber}

\* token.alpha: absent, or a number of hundredths
AlphaSamples == {Undef, Num(0), Num(50), Num(100)}

ValueStart ==
    /\ \E type \in ValueTypes, value \in ValueSamples, alpha \in AlphaSamples :
         token = [type |-> type, value |-> value, alpha |-> alpha]
    /\ applied = <<>>

\* Style Dictionary applies a value transform: where the filter accepts the token,
\* the transform's result becomes token.value, unless the transform threw
ApplyValueTransform(name, matched, result) ==
    /\ Len(applied) < MaxValueSteps
    /\ token' = [token EXCEPT !.value = IF matched /\ result # TypeError THEN result ELSE @]
    /\ applied' = Append(applied, [transform |-> name, matched |-> matched, token |-> token,
                                   after |-> IF matched THEN result ELSE token.value])
    /\ UNCHANGED notXform

ApplyPxToRem ==
    ApplyValueTransform("size/px-to-rem", PxToRemFilter(token), PxToRem(token))

ApplyCssRgba ==
    ApplyValueTransform("color/css-rgba", CssRgbaFilter(token), CssRgba(token))

ApplyReference ==
    ApplyValueTransform("value/reference", ReferenceFilter(token), Reference(token))

ValueNext ==
    \/ ApplyPxToRem
    \/ ApplyCssRgba
    \/ ApplyReference

-----------------------------------------------------------------------------
(* Properties of the value transforms *)

Applications(name) == {i \in 1..Len(applied) : applied[i].transform = name}

\* C11 as stated: a second application of size/px-to-rem (filter, then transform)
\* to a token it has already converted changes the token's value again.
C11_SecondConversionChanges ==
    \A i, j \in Applications("size/px-to-rem") :
        (i < j /\ applied[i].matched) => applied[j].after # applied[j].token.value

\* C11: size/px-to-rem (filter, then transform) changes the value of a token it
\* accepts, and every later application leaves the converted value as it is: the
\* converted value holds no `px`, so the filter rejects it.
C11_ConversionRunsOnce ==
    \A i, j \in Applications("size/px-to-rem") :
        (i < j /\ applied[i].matched) =>
            /\ applied[i].after # applied[i].token.value
            /\ ~applied[j].matched
            /\ applied[j].after = applied[j].token.value

\* 16px has been converted to 1.000rem and the transform has been applied again
C11_Witness ==
    /\ Len(applied) >= 2
    /\ applied[1].transform = "size/px-to-rem"
    /\ applied[2].transform = "size/px-to-rem"
    /\ applied[1].token.value = Str(<<"1","6","p","x">>)
    /\ applied[1].after = Str(<<"1",".","0","0","0","r","e","m">>)

\* the value ends in the unit px
EndsInPx(v) ==
    /\ v.t = "string"
    /\ Len(v.s) >= 2
    /\ SubSeq(v.s, Len(v.s) - 1, Len(v.s)) = kPx

\* C21: size/px-to-rem applies to a token exactly when its type is dimension or
\* fontSize and its value ends in px; it then yields the magnitude divided by the
\* base 16 with three decimal digits and rem; every other token is unchanged.
C21_PxToRemExactly ==
    \A i \in Applications("size/px-to-rem") :
        LET t == applied[i].token
        IN  IF t.type \in {tDimension, tFontSize} /\ EndsInPx(t.value)
            THEN LET magnitude == parseFloat(SubSeq(t.value.s, 1, Len(t.value.s) - 2))
                 IN  ~magnitude.nan =>
                        applied[i].after =
                            Str(ToFixed3(magnitude.num, magnitude.den * baseFontSize) \o kRem)
            ELSE applied[i].after = t.value

\* 24px with the base 16 gives 1.500rem
C21_Example ==
    \A i \in Applications("size/px-to-rem") :
        (applied[i].token.type \in {tDimension, tFontSize}
            /\ applied[i].token.value = Str(<<"2","4","p","x">>))
        => applied[i].after = Str(<<"1",".","5","0","0","r","e","m">>)

IsHexColor(v) ==
    /\ v.t = "string"
    /\ Len(v.s) = 7
    /\ v.s[1] = "#"
    /\ \A j \in 2..7 : InSeq(v.s[j], HexCh) \/ InSeq(v.s[j], SubSeq(LowerCh, 1, 6))

\* "rgba(R, G, B, a)" for the hex colour hex and the alpha a in hundredths
RgbaText(hex, a) ==
    <<"r","g","b","a","(">> \o NatToStr(HexPairValue(SubSeq(hex, 2, 3))) \o <<",", " ">>
        \o NatToStr(HexPairValue(SubSeq(hex, 4, 5))) \o <<",", " ">>
        \o NatToStr(HexPairValue(SubSeq(hex, 6, 7))) \o <<",", " ">>
        \o HundredthsToStr(a) \o <<")">>

\* C15: for a colour token with an alpha a in [0,1] and a value #RRGGBB,
\* color/css-rgba renders "rgba(R, G, B, a)" with the token's own alpha; a token
\* without alpha is not touched.
C15_RgbaRendersOwnAlpha ==
    \A i \in Applications("color/css-rgba") :
        LET t == applied[i].token
        IN  /\ (t.type = tColor /\ t.alpha # Undef /\ IsHexColor(t.value))
                  => applied[i].after = Str(RgbaText(t.value.s, t.alpha.n))
            /\ t.alpha = Undef => applied[i].after = t.value

\* the exact form {dot.separated.path}
IsReferenceForm(v) ==
    /\ v.t = "string"
    /\ Len(v.s) >= 3
    /\ v.s[1] = "{"
    /\ v.s[Len(v.s)] = "}"
    /\ LET inner == SubSeq(v.s, 2, Len(v.s) - 1)
       IN  /\ \A k \in 1..Len(inner) : inner[k] \notin {"{", "}", " "}
           /\ \A part \in {Split(inner, ".")[k] : k \in 1..Len(Split(inner, "."))} : part # <<>>

\* C20: value/reference applies to a token exactly when its value has the exact
\* form {dot.separated.path}, and then yields var(-- + the path with every . replaced
\* by - + ); every other value is left unchanged.
C20_ReferenceExactForm ==
    \A i \in Applications("value/reference") :
        LET v == applied[i].token.value
        IN  IF IsReferenceForm(v)
            THEN applied[i].after =
                    Str(<<"v","a","r","(","-","-">> \o
                        Join(Split(SubSeq(v.s, 2, Len(v.s) - 1), "."), <<"-">>) \o <<")">>)
            ELSE applied[i].after = v

-----------------------------------------------------------------------------
(* parseFigmaName on its own (normalize.js:227-235) *)

MaxNameLen == 4

\* the characters style names are made of: a letter, a digit, the separator, a
\* space, a dash, an underscore, a character outside the class
NameAlphabet == {"a", "5", "/", " ", "-", "_", "!"}

RECURSIVE NamesOfLength(_)
NamesOfLength(n) ==
    IF n = 0 THEN {<<>>}
    ELSE {Append(w, c) : w \in NamesOfLength(n - 1), c \in NameAlphabet}

StyleNames == UNION {NamesOfLength(n) : n \in 0..MaxNameLen}

ParseStart ==
    /\ input \in StyleNames
    /\ output = NotCalled

\* parseFigmaName(input) returns
CallParseFigmaName ==
    /\ output = NotCalled
    /\ output' = [called |-> TRUE, result |-> parseFigmaName(input)]
    /\ UNCHANGED <<input, notCall>>

ParseNext == CallParseFigmaName

-----------------------------------------------------------------------------
(* Properties of parseFigmaName *)

\* a part of the name, trimmed and with every character outside [a-zA-Z0-9_-]
\* replaced by a dash
Replaced(part) ==
    LET t == Trim(part)
    IN  [i \in 1..Len(t) |-> IF IsNameChar(t[i]) THEN t[i] ELSE "-"]

ReplacedParts(name) ==
    LET parts == Split(name, "/")
    IN  [i \in 1..Len(parts) |-> Replaced(parts[i])]

\* C16 as stated: parseFigmaName returns exactly the parts of the name split on /,
\* trimmed, with the characters outside the class replaced by dashes, the empty
\* ones discarded, with no other change to a part; every segment is non-empty.
C16_ParseExactly ==
    output # NotCalled =>
        /\ output.result = SelectSeq(ReplacedParts(input), LAMBDA part : part # <<>>)
        /\ \A i \in 1..Len(output.result) : output.result[i] # <<>>

\* C16: parseFigmaName returns, in order, one segment for every part of the name
\* (split on /, trimmed, characters outside the class replaced by dashes) that
\* holds a character other than a dash: that part without its leading and trailing
\* dashes.  Every segment is non-empty and neither starts nor ends with a dash.
C16_ParseStripsDashes ==
    output # NotCalled =>
        LET kept == SelectSeq(ReplacedParts(input),
                              LAMBDA part : \E k \in 1..Len(part) : part[k] # "-")
        IN  /\ Len(output.result) = Len(kept)
            /\ \A i \in 1..Len(output.result) :
                  LET seg == output.result[i]
                  IN  /\ seg # <<>>
                      /\ Head(seg) # "-"
                      /\ seg[Len(seg)] # "-"
                      /\ \E a \in 0..Len(kept[i]) :
                            /\ a + Len(seg) <= Len(kept[i])
                            /\ SubSeq(kept[i], a + 1, a + Len(seg)) = seg
                            /\ \A k \in 1..Len(kept[i]) :
                                  (k <= a \/ k > a + Len(seg)) => kept[i][k] = "-"

\* the name "!a/-" has been parsed to the one segment "a"
C16_Witness ==
    /\ input = <<"!", "a", "/", "-">>
    /\ output # NotCalled
    /\ output.result = << <<"a">> >>

-----------------------------------------------------------------------------
(* The line height of one text style (part_000:161-171, normalize.js:149-164) *)

MaxLineHeight == 40

\* node.document.style of a TEXT style: font sizes with and without exact
\* quotients, or none; a line height in whole pixels
TextStyles ==
    { [fontSize |-> f, lineHeightPx |-> Num(l)] :
        f \in {Undef, Num(10), Num(12), Num(16)}, l \in 1..MaxLineHeight }

\* the styleData fetchStyleDetails pushes for a TEXT style named body/lg
\* (part_000:146-170)
TextStyleRecord(textStyle) ==
    [key |-> Str(<<"t","2">>), name |-> Str(nBodyLg), description |-> Str(<<>>),
     fontFamily |-> Undef, fontWeight |-> Undef,
     fontSize |-> textStyle.fontSize, lineHeight |-> textStyle.lineHeightPx]

\* normalizeTypography on a list of the one record of textStyle
\* (normalize.js:41-46, 99-168)
NormalizeTextOne ==
    /\ npc = "text"
    /\ text = <<>>
    /\ \E textStyle \in TextStyles :
         LET res == NormalizeTextStyle(normalized, <<kTypography>>, TextStyleRecord(textStyle))
         IN  /\ text' = <<TextStyleRecord(textStyle)>>
             /\ normalized' = res.store
             /\ npc' = IF res.threw THEN "threw" ELSE "effects"
    /\ UNCHANGED <<colors, effects, notNorm>>

TextStart ==
    /\ npc = "text"
    /\ colors = <<>>
    /\ text = <<>>
    /\ effects = <<>>
    /\ normalized = InitialNormalized

TextNext == NormalizeTextOne

-----------------------------------------------------------------------------
(* Properties of the line height *)

\* the value of the lineHeight token of the style named body/lg
LineHeightTokenValue == ValAt(normalized, <<kTypography, kLineHeight, <<"l","g">>, kValue>>)

\* the number of hundredths a string of the form digits.dd denotes, -1 for a
\* string of another form
HundredthsOf(str) ==
    LET n == Len(str)
    IN  IF /\ n >= 4
           /\ str[n - 2] = "."
           /\ \A k \in (1..n) \ {n - 2} : InSeq(str[k], DigitCh)
        THEN 100 * DigitsValue(SubSeq(str, 1, n - 3)) + DigitsValue(SubSeq(str, n - 1, n))
        ELSE -1

\* C17: a text style with a pixel line height L and a font size F gets a
\* lineHeight token whose value is the string of L / F rounded to 2 decimal places;
\* without a font size the raw line height is kept as a string.
C17_LineHeightRatio ==
    \A i \in 1..Len(text) :
        LET L == text[i].lineHeight.n
            v == LineHeightTokenValue
        IN  /\ v.t = "string"
            /\ ValAt(normalized, <<kTypography, kLineHeight, <<"l","g">>, kType>>) = Str(tNumber)
            /\ IF text[i].fontSize # Undef
               THEN LET F == text[i].fontSize.n
                        h == HundredthsOf(v.s)
                    IN  /\ h >= 0
                        /\ 2 * (100 * L - h * F) <= F
                        /\ 2 * (h * F - 100 * L) <= F
               ELSE v.s = NatToStr(L)

\* fontSize 16 with lineHeightPx 24 has given the value "1.50"
C17_Witness ==
    /\ npc = "effects"
    /\ text = <<TextStyleRecord([fontSize |-> Num(16), lineHeightPx |-> Num(24)])>>
    /\ LineHeightTokenValue = Str(<<"1",".","5","0">>)

-----------------------------------------------------------------------------
(* name/semantic on its own (custom-transforms.js:17-39) *)

MaxNamePathLen == 3

p500   == <<"5","0","0">>
pTrail == <<"B","!">>

NameSegments == {kColors, tColor, pPrimary, p500, pOdd, pTrail}

RECURSIVE NamePathsOfLength(_)
NamePathsOfLength(n) ==
    IF n = 0 THEN {<<>>}
    ELSE {Append(q, seg) : q \in NamePathsOfLength(n - 1), seg \in NameSegments}

NamePaths == UNION {NamePathsOfLength(n) : n \in 1..MaxNamePathLen}

\* a token of the dictionary, of a type with a prefix equal to a segment, with a
\* prefix that holds a dash, or without type
NameStart ==
    /\ \E path \in NamePaths, type \in {tColor, tFontSize, <<>>} :
         token = [path |-> path, type |-> type, name |-> path[Len(path)], attributes |-> <<>>]
    /\ applied = <<>>

NameNext == ApplyNameSemantic

-----------------------------------------------------------------------------
(* Properties of name/semantic *)

\* the name the words of C18 describe for token tok, built from the runs of
\* letters and digits of the lower-cased, dash-joined segments
DescribedName(tok) ==
    LET prefix == getTypePrefix(tok.type)
        segs   == IF prefix # <<>> /\ tok.path[1] # prefix THEN <<prefix>> \o tok.path
                  ELSE tok.path
        lower  == ToLowerCase(Join(segs, <<"-">>))
        dashed == [k \in 1..Len(lower) |->
                      IF InSeq(lower[k], LowerCh) \/ InSeq(lower[k], DigitCh) THEN lower[k] ELSE "-"]
    IN  Join(SelectSeq(Split(dashed, "-"), LAMBDA w : w # <<>>), <<"-">>)

C19_CollectionNameDropped ==
    \A i \in 1..Len(applied) :
        (token.path = <<kColors, pPrimary, p500>> /\ token.type = tColor)
            => applied[i].result = <<"c","o","l","o","r","-","p","r","i","m","a","r","y","-","5","0","0">>

-----------------------------------------------------------------------------
(* fetchStyleDetails (unnamed/part_000:122-199) *)

MaxStyleList == 3

NoDetails == [colors |-> <<>>, text |-> <<>>, effects |-> <<>>]

\* style metadata of each style type the loop tells apart, and of another type
StyleSamples ==
    { [key |-> "k1", name |-> "primary/500", style_type |-> "FILL",   node_id |-> "1:1"],
      [key |-> "k2", name |-> "body/lg",     style_type |-> "TEXT",   node_id |-> "1:2"],
      [key |-> "k3", name |-> "shadow/sm",   style_type |-> "EFFECT", node_id |-> "1:3"],
      [key |-> "k4", name |-> "grid/12",     style_type |-> "GRID",   node_id |-> "1:4"] }

RECURSIVE StyleLists(_)
StyleLists(n) ==
    IF n = 0 THEN {<<>>}
    ELSE {<<>>} \cup {Append(l, style) : l \in StyleLists(n - 1), style \in StyleSamples}

\* what GET /files/:key/nodes can answer for a style: no node or a node without
\* document, a document without fills, style and effects, a document with a
\* solid fill, a text style and effects
NodeAnswers == {"no document", "empty document", "full document"}

DetailStart ==
    /\ styles \in StyleLists(MaxStyleList)
    /\ cursor = 0
    /\ detailedStyles = NoDetails
    /\ processed = 0
    /\ requested = <<>>

\* the loop is past the last style: the function has returned detailedStyles
DetailsReturned == cursor = Len(styles) + 1

\* the loop goes on to style i: applyRateLimit, then client.get (part_000:134-139)
RequestNode(i) ==
    IF i <= Len(styles)
    THEN Append(requested, [id |-> styles[i].node_id, outcome |-> "pending"])
    ELSE requested

Settle(log, i, outcome) == [log EXCEPT ![i].outcome = outcome]

\* fetchStyleDetails is called and reaches its first await, or returns when there
\* are no styles (part_000:122-139)
CallFetchStyleDetails ==
    /\ cursor = 0
    /\ cursor' = 1
    /\ requested' = RequestNode(1)
    /\ UNCHANGED <<styles, detailedStyles, processed, notDetail>>

\* the record pushed for a style (part_000:146-151)
StyleData(style) ==
    [key |-> style.key, name |-> style.name, styleType |-> style.style_type]

\* the if chain on style.style_type (part_000:145-178)
WithStyle(details, style, answer) ==
    IF answer # "full document" THEN details
    ELSE CASE style.style_type = "FILL"   ->
                [details EXCEPT !.colors = Append(@, StyleData(style))]
           [] style.style_type = "TEXT"   ->
                [details EXCEPT !.text = Append(@, StyleData(style))]
           [] style.style_type = "EFFECT" ->
                [details EXCEPT !.effects = Append(@, StyleData(style))]
           [] OTHER -> details

\* the catch of the loop with a return in it
NodeRejectsLeaving ==
    /\ cursor \in 1..Len(styles)
    /\ cursor' = Len(styles) + 1
    /\ requested' = Settle(requested, cursor, "rejected")
    /\ UNCHANGED <<styles, detailedStyles, processed, notDetail>>

\* the request for the node of the style at the cursor fails: the catch inside
\* the loop, then the next iteration (part_000:190-193)
NodeRejects ==
    /\ cursor \in 1..Len(styles)
    /\ cursor' = cursor + 1
    /\ requested' = Settle(RequestNode(cursor + 1), cursor, "rejected")
    /\ UNCHANGED <<styles, detailedStyles, processed, notDetail>>

\* the request answers: the record is pushed where the document has the data of
\* the style's type, processed is incremented, then the next iteration
\* (part_000:141-188)
NodeResolves(answer) ==
    /\ cursor \in 1..Len(styles)
    /\ detailedStyles' = WithStyle(detailedStyles, styles[cursor], answer)
    /\ processed' = processed + 1
    /\ cursor' = cursor + 1
    /\ requested' = Settle(RequestNode(cursor + 1), cursor, answer)
    /\ UNCHANGED <<styles, notDetail>>

DetailNext ==
    \/ CallFetchStyleDetails
    \/ NodeRejects
    \/ \E answer \in NodeAnswers : NodeResolves(answer)

-----------------------------------------------------------------------------
(* Properties of fetchStyleDetails *)

\* the indices of the settled requests with an outcome of the set
Settled(outcomes) == {i \in 1..Len(requested) : requested[i].outcome \in outcomes}

\* the keys of a collection
Keys(records) == [i \in 1..Len(records) |-> records[i].key]

\* the keys of the styles of a type whose request answered with a full document,
\* in list order
RECURSIVE FullKeys(_, _)
FullKeys(i, type) ==
    IF i = 0 THEN <<>>
    ELSE IF requested[i].outcome = "full document" /\ styles[i].style_type = type
    THEN Append(FullKeys(i - 1, type), styles[i].key)
    ELSE FullKeys(i - 1, type)

\* C28: a style whose node request fails contributes no record and is not counted
\* in processed; the later styles are still requested, in list order; and the
\* function returns the collections built from the styles that succeeded.
C28_FailedStyleSkipped ==
    /\ Len(requested) <= Len(styles)
    /\ \A i \in 1..Len(requested) : requested[i].id = styles[i].node_id
    /\ processed = Cardinality(Settled(NodeAnswers))
    /\ Keys(detailedStyles.colors)  = FullKeys(Len(requested), "FILL")
    /\ Keys(detailedStyles.text)    = FullKeys(Len(requested), "TEXT")
    /\ Keys(detailedStyles.effects) = FullKeys(Len(requested), "EFFECT")
    /\ DetailsReturned =>
          /\ Len(requested) = Len(styles)
          /\ Settled({"pending"}) = {}

\* the request of the first of three styles failed, the two later ones answered,
\* and the function returned their two records
C28_Witness ==
    /\ DetailsReturned
    /\ Len(styles) = 3
    /\ requested[1].outcome = "rejected"
    /\ requested[2].outcome = "full document"
    /\ requested[3].outcome = "full document"
    /\ styles[2].style_type = "FILL"
    /\ styles[3].style_type = "TEXT"
    /\ processed = 2
    /\ Len(detailedStyles.colors) = 1
    /\ Len(detailedStyles.text) = 1

-----------------------------------------------------------------------------
(* figmaEffectToCss on its own (normalize.js:263-288) *)

MaxLayers == 3

EffectTypes == {"DROP_SHADOW", "INNER_SHADOW", "LAYER_BLUR"}

RichShadow ==
    [type |-> "INNER_SHADOW", offset |-> [present |-> TRUE, x |-> -2, y |-> 4],
     radius |-> Num(8), spread |-> Num(3),
     color |-> [present |-> TRUE, r |-> Rat(1,1), g |-> Rat(1,2), b |-> Rat(0,1),
                hasA |-> FALSE]]

\* effect layers: every type with everything but the spread, with nothing, with
\* a radius only, and with everything but the alpha
LayerSamples ==
    { [layer EXCEPT !.type = type] :
        layer \in {DropShadow, InnerShadowBare, LayerBlur, RichShadow}, type \in EffectTypes }

RECURSIVE LayerLists(_)
LayerLists(n) ==
    IF n = 0 THEN {<<>>}
    ELSE {<<>>} \cup {Append(l, layer) : l \in LayerLists(n - 1), layer \in LayerSamples}

EffectStart ==
    /\ input \in LayerLists(MaxLayers)
    /\ output = NotCalled

\* figmaEffectToCss(input) returns
CallFigmaEffectToCss ==
    /\ output = NotCalled
    /\ output' = [called |-> TRUE, result |-> figmaEffectToCss(input)]
    /\ UNCHANGED <<input, notCall>>

EffectNext == CallFigmaEffectToCss

-----------------------------------------------------------------------------
(* Properties of figmaEffectToCss *)

IsShadow(layer) == layer.type \in {"DROP_SHADOW", "INNER_SHADOW"}

\* "<inset ><x>px <y>px <blur>px <spread>px rgba(r, g, b, a)"; a in hundredths
LayerText(inset, x, y, blur, spread, r, g, b, a) ==
    (IF inset THEN <<"i","n","s","e","t"," ">> ELSE <<>>)
    \o IntToStr(x) \o <<"p","x"," ">> \o IntToStr(y) \o <<"p","x"," ">>
    \o IntToStr(blur) \o <<"p","x"," ">> \o IntToStr(spread) \o <<"p","x"," ">>
    \o <<"r","g","b","a","(">> \o NatToStr(r) \o <<","," ">> \o NatToStr(g) \o <<","," ">>
    \o NatToStr(b) \o <<","," ">> \o HundredthsToStr(a) \o <<")">>

\* the text of a shadow layer: a missing offset, radius or spread is 0, a missing
\* colour is opaque black, a colour without alpha is opaque
DescribedLayer(layer) ==
    LayerText(layer.type = "INNER_SHADOW",
              IF layer.offset.present THEN layer.offset.x ELSE 0,
              IF layer.offset.present THEN layer.offset.y ELSE 0,
              IF layer.radius = Undef THEN 0 ELSE layer.radius.n,
              IF layer.spread = Undef THEN 0 ELSE layer.spread.n,
              IF layer.color.present THEN RoundDiv(ChannelMax * layer.color.r.num, layer.color.r.den) ELSE 0,
              IF layer.color.present THEN RoundDiv(ChannelMax * layer.color.g.num, layer.color.g.den) ELSE 0,
              IF layer.color.present THEN RoundDiv(ChannelMax * layer.color.b.num, layer.color.b.den) ELSE 0,
              IF layer.color.present /\ layer.color.hasA THEN layer.color.a100 ELSE 100)

-----------------------------------------------------------------------------
(* The documentation formats json/documentation, markdown/documentation and
   html/documentation (custom-formats.js) *)

UpperOf(c) ==
    IF InSeq(c, LowerCh)
    THEN UpperCh[CHOOSE i \in 1..Len(LowerCh) : LowerCh[i] = c]
    ELSE c

\* capitalize (custom-formats.js:267-269)
capitalize(str) ==
    IF str = <<>> THEN <<>> ELSE <<UpperOf(str[1])>> \o Tail(str)

kOther       == <<"o","t","h","e","r">>
kUnknown     == <<"u","n","k","n","o","w","n">>
kConstructor == <<"c","o","n","s","t","r","u","c","t","o","r">>
kToString    == <<"t","o","S","t","r","i","n","g">>
kProto       == <<"_","_","p","r","o","t","o","_","_">>

\* the property names every object literal inherits from Object.prototype (those
\* of the samples): `categories[name]` is truthy for them before any assignment
PrototypeKeys == {kConstructor, kToString, kProto}

\* a canonical array index: such property names are enumerated first, in
\* ascending numeric order (names of ten digits or more are not sampled)
IsArrayIndex(key) ==
    /\ key # <<>>
    /\ Len(key) < 10
    /\ \A i \in 1..Len(key) : InSeq(key[i], DigitCh)
    /\ (Len(key) = 1 \/ key[1] # "0")

\* the entries of `categories` whose key is an array index, by ascending index
RECURSIVE IndexEntries(_)
IndexEntries(entries) ==
    IF entries = <<>> THEN <<>>
    ELSE LET least == CHOOSE i \in 1..Len(entries) :
                        \A j \in 1..Len(entries) :
                            DigitsValue(entries[i].key) <= DigitsValue(entries[j].key)
         IN  <<entries[least]>> \o
             IndexEntries(SubSeq(entries, 1, least - 1) \o SubSeq(entries, least + 1, Len(entries)))

IsIndexEntry(e) == IsArrayIndex(e.key)
IsNameEntry(e)  == ~IsArrayIndex(e.key)

\* Object.entries(categories) (custom-formats.js:90, 223) and the key order of
\* JSON.stringify (custom-formats.js:63): array indices ascending, then the other
\* keys in insertion order
ObjectEntries(categories) ==
    IndexEntries(SelectSeq(categories, IsIndexEntry)) \o SelectSeq(categories, IsNameEntry)

\* the index of the own property key of categories, 0 when there is none
OwnIndex(categories, key) ==
    IF \E i \in 1..Len(categories) : categories[i].key = key
    THEN CHOOSE i \in 1..Len(categories) : categories[i].key = key
    ELSE 0

\* the forEach that groups the tokens (custom-formats.js:35-59, 82-88, 214-220);
\* categories is the object built so far, as entries [key, tokens] in insertion
\* order.  For a key inherited from Object.prototype `!categories[category]` is
\* false and the push throws.
RECURSIVE GroupTokens(_, _)
GroupTokens(tokens, categories) ==
    IF tokens = <<>> THEN [entries |-> categories]
    ELSE LET tok == Head(tokens)
             category == IF tok.path # <<>> /\ tok.path[1] # <<>>
                         THEN tok.path[1] ELSE kOther
             at == OwnIndex(categories, category)
         IN  IF at = 0 /\ category \in PrototypeKeys THEN TypeError
             ELSE IF at = 0
             THEN GroupTokens(Tail(tokens),
                      Append(categories, [key |-> category, tokens |-> <<tok>>]))
             ELSE GroupTokens(Tail(tokens),
                      [categories EXCEPT ![at].tokens = Append(@, tok)])

\* the keys of `descriptions` (custom-formats.js:253-260)
DescribedCategories ==
    { kColors, kTypography, kSpacing, kEffects, kShadows, kBorderRadius }

\* getCategoryDescription (custom-formats.js:252-262): the text of `descriptions`
\* for its six keys, `${category} tokens` for any other
getCategoryDescription(category) ==
    IF category \in DescribedCategories
    THEN [described |-> TRUE, category |-> category]
    ELSE [described |-> FALSE, text |-> category \o <<" ","t","o","k","e","n","s">>]

\* obj?.key of a token's attributes
Attribute(tok, key) ==
    IF tok.attributes = Undef THEN Undef ELSE tok.attributes[key]

\* the object pushed for a token by json/documentation (custom-formats.js:45-58);
\* the sampled tokens carry neither source nor original
JsonToken(tok, category) ==
    [ name        |-> tok.name,
      value       |-> tok.value,
      type        |-> OrElse(tok.type, Str(kUnknown)),
      path        |-> Join(tok.path, <<".">>),
      description |-> OrElse(OrElse(tok.description, tok.comment), Str(<<>>)),
      category    |-> OrElse(Attribute(tok, "category"), Str(category)),
      subcategory |-> Attribute(tok, "subcategory") ]

JsonCategory(entry) ==
    [ key         |-> entry.key,
      description |-> getCategoryDescription(entry.key),
      tokens      |-> [i \in 1..Len(entry.tokens) |-> JsonToken(entry.tokens[i], entry.key)] ]

\* what a format writes for the groups `categories`, each format with its own
\* rendering of a group
Sections(categories, RenderGroup(_)) ==
    LET entries == ObjectEntries(categories.entries)
    IN  [i \in 1..Len(entries) |-> RenderGroup(entries[i])]

\* json/documentation (custom-formats.js:19-64)
JsonDocumentation(tokens, options, time) ==
    LET categories == GroupTokens(tokens, <<>>)
    IN  IF categories = TypeError THEN TypeError
        ELSE [ generatedAt |-> time,
               tokenCount  |-> Len(tokens),
               tokens      |-> Sections(categories, JsonCategory) ]

\* formatValue (custom-formats.js:274-279): the value as `${value}`, after a
\* swatch for a colour
formatValue(value, type) ==
    [swatch |-> (type = Str(tColor)), background |-> ToStr(value), text |-> ToStr(value)]

\* a table row of markdown/documentation (custom-formats.js:95-102)
MarkdownRow(tok) ==
    [ name        |-> tok.name,
      value       |-> formatValue(tok.value, tok.type),
      type        |-> OrElse(tok.type, Str(kUnknown)),
      description |-> OrElse(OrElse(tok.description, tok.comment), Str(<<"-">>)) ]

MarkdownCategory(entry) ==
    [ heading |-> capitalize(entry.key),
      rows    |-> [i \in 1..Len(entry.tokens) |-> MarkdownRow(entry.tokens[i])] ]

kDesignTokens == <<"D","e","s","i","g","n"," ","T","o","k","e","n","s">>

\* options?.title || 'Design Tokens'
Title(options) ==
    OrElse(IF options = Undef THEN Undef ELSE options.title, Str(kDesignTokens))

\* markdown/documentation with the time of the render written for the count
MarkdownDocumentationStamped(tokens, options, time) ==
    LET categories == GroupTokens(tokens, <<>>)
    IN  IF categories = TypeError THEN TypeError
        ELSE [ title       |-> Title(options),
               generatedAt |-> time,
               tokenCount  |-> time,
               tokens      |-> Sections(categories, MarkdownCategory) ]

\* markdown/documentation (custom-formats.js:78-106)
MarkdownDocumentation(tokens, options, time) ==
    LET categories == GroupTokens(tokens, <<>>)
    IN  IF categories = TypeError THEN TypeError
        ELSE [ title       |-> Title(options),
               generatedAt |-> time,
               tokenCount  |-> Len(tokens),
               tokens      |-> Sections(categories, MarkdownCategory) ]

\* str.replace(/c/g, entity) for the character c
RECURSIVE ReplaceAll(_, _, _)
ReplaceAll(str, c, entity) ==
    IF str = <<>> THEN <<>>
    ELSE (IF Head(str) = c THEN entity ELSE <<Head(str)>>) \o ReplaceAll(Tail(str), c, entity)

\* escapeHtml (custom-formats.js:300-308): '' for a falsy str, the five replaces
\* in the order of the code for a string; replace is no method of any other value
escapeHtml(str) ==
    IF ~Truthy(str) THEN Str(<<>>)
    ELSE IF str.t # "string" THEN TypeError
    ELSE Str(ReplaceAll(ReplaceAll(ReplaceAll(ReplaceAll(ReplaceAll(str.s,
                "&", <<"&","a","m","p",";">>),
                "<", <<"&","l","t",";">>),
                ">", <<"&","g","t",";">>),
                "\"", <<"&","q","u","o","t",";">>),
                "'", <<"&","#","0","3","9",";">>))

\* Math.min(parseFloat(value) * 2, 100), NaN for a value without leading number
PreviewWidth(value) ==
    LET n == parseFloat(ToStr(value))
    IN  IF n.nan THEN NaN
        ELSE IF 2 * n.num > 100 * n.den THEN [nan |-> FALSE, num |-> 100, den |-> 1]
        ELSE [nan |-> FALSE, num |-> 2 * n.num, den |-> n.den]

\* generatePreview (custom-formats.js:286-295): a swatch whose style holds
\* `${token.value}` as it is, a bar of the computed width, or ''
generatePreview(tok) ==
    IF tok.type = Str(tColor)
    THEN [kind |-> "color-swatch", background |-> ToStr(tok.value)]
    ELSE IF tok.type \in {Str(tDimension), Str(tFontSize)}
    THEN [kind |-> "size-preview", width |-> PreviewWidth(tok.value)]
    ELSE [kind |-> "none"]

\* the div of a token in html/documentation (custom-formats.js:229-243); the
\* description div is written only for a truthy description or comment
HtmlToken(tok) ==
    [ name        |-> tok.name,
      value       |-> escapeHtml(tok.value),
      preview     |-> generatePreview(tok),
      type        |-> OrElse(tok.type, Str(kUnknown)),
      description |-> IF Truthy(OrElse(tok.description, tok.comment))
                      THEN escapeHtml(OrElse(tok.description, tok.comment))
                      ELSE Undef ]

HtmlCategory(entry) ==
    [ heading |-> capitalize(entry.key),
      tokens  |-> [i \in 1..Len(entry.tokens) |-> HtmlToken(entry.tokens[i])] ]

\* a template literal that calls a function that throws is never completed
Threw(sections) ==
    \E i \in 1..Len(sections) : \E j \in 1..Len(sections[i].tokens) :
        TypeError \in {sections[i].tokens[j].value, sections[i].tokens[j].description}

\* html/documentation (custom-formats.js:113-252)
HtmlDocumentation(tokens, options, time) ==
    LET categories == GroupTokens(tokens, <<>>)
    IN  IF categories = TypeError THEN TypeError
        ELSE LET sections == Sections(categories, HtmlCategory)
             IN  IF Threw(sections) THEN TypeError
                 ELSE [ title       |-> Title(options),
                        generatedAt |-> time,
                        tokens      |-> sections ]

kDocTitle == <<"D","e","s","i","g","n"," ","T","o","k","e","n","s"," ",
               "D","o","c","u","m","e","n","t","a","t","i","o","n">>

Formats == {"json/documentation", "markdown/documentation", "html/documentation"}

\* the options of the three files of the platform docs (style-dictionary.config.js:119-138)
OptionsOf(format) ==
    IF format = "json/documentation" THEN Undef ELSE [title |-> Str(kDocTitle)]

Format(format, tokens, options, time) ==
    CASE format = "json/documentation"     -> JsonDocumentation(tokens, options, time)
      [] format = "markdown/documentation" -> MarkdownDocumentation(tokens, options, time)
      [] format = "html/documentation"     -> HtmlDocumentation(tokens, options, time)

MaxTokens  == 3
MaxRenders == 2

\* what new Date() can return at a render
Times == {"T1", "T2"}

DocToken(name, path, type, value, description) ==
    [ name |-> name, path |-> path, type |-> type, value |-> value,
      description |-> description, comment |-> Undef, attributes |-> Undef ]

\* the sampled tokens: two colours and a font weight under `b`, the second colour
\* with markup in its value; a size under `1`; a size without number and without
\* type under `b`; a token under `constructor`; a token without segments
DocSamples ==
    { DocToken(<<"b","-","x">>, <<<<"b">>, <<"x">>>>, Str(tColor),
               Str(<<"#","f","0","0">>), Str(<<"a","&","b">>)),
      DocToken(<<"b","-","q">>, <<<<"b">>, <<"q">>>>, Str(tColor),
               Str(<<"\"",">","<","'">>), Undef),
      DocToken(<<"b","-","w">>, <<<<"b">>, <<"w">>>>, Str(tFontWeight), Num(400), Undef),
      DocToken(<<"1","-","y">>, <<<<"1">>, <<"y">>>>, Str(tDimension),
               Str(<<"1","6","p","x">>), Undef),
      [DocToken(<<"b","-","z">>, <<<<"b">>, <<"z">>>>, Str(tDimension), Str(<<"z">>), Undef)
          EXCEPT !.attributes = [category |-> Str(<<"c">>), subcategory |-> Undef]],
      DocToken(kConstructor, <<kConstructor>>, Undef, Undef, Undef),
      DocToken(<<>>, <<>>, Undef, Str(<<"v">>), Undef) }

RECURSIVE TokenLists(_)
TokenLists(n) ==
    IF n = 0 THEN {<<>>}
    ELSE {<<>>} \cup {Append(l, tok) : l \in TokenLists(n - 1), tok \in DocSamples}

DocStart ==
    /\ dictionary \in TokenLists(MaxTokens)
    /\ rendered = <<>>

\* Style Dictionary calls the format of one file of the platform docs; a format
\* called again is called on the same dictionary
Render(format) ==
    /\ Len(rendered) < MaxRenders
    /\ rendered # <<>> => rendered[1].format = format
    /\ \E time \in Times :
         rendered' = Append(rendered,
                        [ format |-> format, time |-> time, tokens |-> dictionary,
                          out |-> Format(format, dictionary, OptionsOf(format), time) ])
    /\ UNCHANGED <<dictionary, notDoc>>

RenderJson     == Render("json/documentation")
RenderMarkdown == Render("markdown/documentation")
RenderHtml     == Render("html/documentation")

DocNext ==
    \/ RenderJson
    \/ RenderMarkdown
    \/ RenderHtml

-----------------------------------------------------------------------------
(* Properties of the documentation formats *)

\* the distinct top-level segments of the tokens, in the order of first appearance
RECURSIVE FirstSeen(_, _)
FirstSeen(tokens, seen) ==
    IF tokens = <<>> THEN seen
    ELSE FirstSeen(Tail(tokens),
                   IF \E i \in 1..Len(seen) : seen[i] = Head(tokens).path[1]
                   THEN seen ELSE Append(seen, Head(tokens).path[1]))

\* the tokens of the list whose top-level segment is key, in list order
TokensUnder(tokens, key) ==
    LET Under(tok) == tok.path[1] = key
    IN  SelectSeq(tokens, Under)

\* the groups of the tokens by top-level segment, in first-seen order
FirstSeenGroups(tokens) ==
    LET keys == FirstSeen(tokens, <<>>)
    IN  [i \in 1..Len(keys) |-> [key |-> keys[i], tokens |-> TokensUnder(tokens, keys[i])]]

GroupRendering(format, entry) ==
    CASE format = "json/documentation"     -> JsonCategory(entry)
      [] format = "markdown/documentation" -> MarkdownCategory(entry)
      [] format = "html/documentation"     -> HtmlCategory(entry)

HasTopSegments(tokens) == \A i \in 1..Len(tokens) : tokens[i].path # <<>>

\* C22: in each documentation format, for every token list whose tokens have a
\* top-level segment, the groups appear in the order in which their segment is
\* first seen, each token appears exactly once, in the group of its segment, and
\* the tokens of a group keep their input order.
C22_GroupsInFirstSeenOrder ==
    \A i \in 1..Len(rendered) :
        HasTopSegments(rendered[i].tokens) =>
            /\ rendered[i].out # TypeError
            /\ LET groups == FirstSeenGroups(rendered[i].tokens)
               IN  rendered[i].out.tokens =
                      [g \in 1..Len(groups) |-> GroupRendering(rendered[i].format, groups[g])]

Entities ==
    { <<"&","a","m","p",";">>, <<"&","l","t",";">>, <<"&","g","t",";">>,
      <<"&","q","u","o","t",";">>, <<"&","#","0","3","9",";">> }

\* none of < > " ' occurs in the text and every & starts an entity
IsEscaped(str) ==
    \A i \in 1..Len(str) :
        /\ str[i] \notin {"<", ">", "\"", "'"}
        /\ str[i] = "&" =>
              \E e \in Entities :
                  i + Len(e) - 1 <= Len(str) /\ SubSeq(str, i, i + Len(e) - 1) = e

\* C23: in the html/documentation artifact every place where a token's value or
\* description is written (the value div, the swatch of the preview, the
\* description div) carries it escaped.
C23_HtmlEscaped ==
    \A i \in 1..Len(rendered) :
        (rendered[i].format = "html/documentation" /\ rendered[i].out # TypeError) =>
            \A g \in 1..Len(rendered[i].out.tokens) :
                \A k \in 1..Len(rendered[i].out.tokens[g].tokens) :
                    LET div == rendered[i].out.tokens[g].tokens[k]
                    IN  /\ IsEscaped(div.value.s)
                        /\ div.preview.kind = "color-swatch" => IsEscaped(div.preview.background)
                        /\ div.description # Undef => IsEscaped(div.description.s)

\* C24: no documentation format raises, for any token list: the artifact is
\* produced whatever the values, types, attributes and top-level segments are.
C24_NoFormatRaises ==
    \A i \in 1..Len(rendered) : rendered[i].out # TypeError

\* an artifact with its generation timestamp blanked
WithoutTimestamp(out) ==
    IF out = TypeError THEN out ELSE [out EXCEPT !.generatedAt = "-"]

-----------------------------------------------------------------------------
(* The Run button of the demo page: runPipeline and animateSteps
   (pipeline.js:592-679); the texts of the button and of the status are not
   modelled, the class lists are *)

STEP_DELAY    == 800
SUCCESS_DELAY == 500
RESET_DELAY   == 3000

\* the replies of the network arrive on a grid of a fifth of the shortest delay,
\* and no later than MaxWait milliseconds after the click
UiQuantum == SUCCESS_DELAY \div 5
MaxWait == 1000

\* const steps = [1, 2, 3, 4] (pipeline.js:611)
ProgressSteps == 1..4

\* the page after DOMContentLoaded, before the click
UiStart ==
    /\ uiNow = 0
    /\ button = [disabled |-> FALSE]
    /\ statusClasses = {"hidden"}
    /\ progressHidden = TRUE
    /\ stepClasses = [step \in ProgressSteps |-> {}]
    /\ run = [pc |-> "idle"]
    /\ anim = [pc |-> "idle"]
    /\ resetTimer = [pc |-> "unset"]

\* animateSteps up to its await for step (pipeline.js:662-668)
Activate(classes, step) == [classes EXCEPT ![step] = @ \cup {"active"}]

\* the click on #run-pipeline: runPipeline up to its first await, animateSteps
\* up to its first await inside it (pipeline.js:593-620)
Click ==
    /\ run.pc = "idle"
    /\ ~button.disabled
    /\ button' = [disabled |-> TRUE]
    /\ progressHidden' = FALSE
    /\ statusClasses' = (statusClasses \ {"hidden", "success", "error"}) \cup {"running"}
    /\ stepClasses' = Activate(stepClasses, 1)
    /\ anim' = [pc |-> "sleeping", step |-> 1, wake |-> uiNow + STEP_DELAY]
    /\ run' = [pc |-> "fetch"]
    /\ UNCHANGED <<uiNow, resetTimer, notUi>>

\* the catch block and the finally block (pipeline.js:641-657)
CatchAndFinally ==
    /\ statusClasses' = (statusClasses \ {"running"}) \cup {"error"}
    /\ button' = [disabled |-> FALSE]
    /\ resetTimer' = [pc |-> "pending", at |-> uiNow + RESET_DELAY]
    /\ run' = [pc |-> "done"]

\* fetch resolves with the response of the server, whatever its status
\* (pipeline.js:615-622)
FetchResolves ==
    /\ run.pc = "fetch"
    /\ run' = [pc |-> "json"]
    /\ UNCHANGED <<uiNow, button, statusClasses, progressHidden, stepClasses, anim,
                   resetTimer, notUi>>

\* fetch rejects: a network error
FetchRejects ==
    /\ run.pc = "fetch"
    /\ CatchAndFinally
    /\ UNCHANGED <<uiNow, progressHidden, stepClasses, anim, notUi>>

\* response.json() resolves with the result of the run (pipeline.js:622-625)
JsonResolves(success) ==
    /\ run.pc = "json"
    /\ run' = [pc |-> "animation", success |-> success]
    /\ UNCHANGED <<uiNow, button, statusClasses, progressHidden, stepClasses, anim,
                   resetTimer, notUi>>

\* response.json() rejects: the body is no JSON
JsonRejects ==
    /\ run.pc = "json"
    /\ CatchAndFinally
    /\ UNCHANGED <<uiNow, progressHidden, stepClasses, anim, notUi>>

\* `await stepAnimation` is over and the result reports success: on to sleep(500)
\* (pipeline.js:625-629)
AnimationAwaitedSuccess ==
    /\ run.pc = "animation"
    /\ anim.pc = "done"
    /\ run.success
    /\ run' = [pc |-> "sleep", wake |-> uiNow + SUCCESS_DELAY]
    /\ UNCHANGED <<uiNow, button, statusClasses, progressHidden, stepClasses, anim,
                   resetTimer, notUi>>

\* `await stepAnimation` is over and the result reports failure: the throw
\* (pipeline.js:637-639)
AnimationAwaitedFailure ==
    /\ run.pc = "animation"
    /\ anim.pc = "done"
    /\ ~run.success
    /\ CatchAndFinally
    /\ UNCHANGED <<uiNow, progressHidden, stepClasses, anim, notUi>>

\* sleep(500) is over: the status turns to success, then loadData is awaited
\* (pipeline.js:629-635)
SuccessShown ==
    /\ run.pc = "sleep"
    /\ run.wake <= uiNow
    /\ statusClasses' = (statusClasses \ {"running"}) \cup {"success"}
    /\ run' = [pc |-> "loadData"]
    /\ UNCHANGED <<uiNow, button, progressHidden, stepClasses, anim, resetTimer, notUi>>

\* loadData returns (it catches its own errors), renderAll returns, then the
\* finally block (pipeline.js:635-636, 645-657)
DataLoaded ==
    /\ run.pc = "loadData"
    /\ button' = [disabled |-> FALSE]
    /\ resetTimer' = [pc |-> "pending", at |-> uiNow + RESET_DELAY]
    /\ run' = [pc |-> "done"]
    /\ UNCHANGED <<uiNow, statusClasses, progressHidden, stepClasses, anim, notUi>>

\* the sleep of animateSteps is over: the step is complete and the next step is
\* activated, or the loop ends (pipeline.js:662-674)
StepCompletes ==
    /\ anim.pc = "sleeping"
    /\ anim.wake <= uiNow
    /\ LET completed == [stepClasses EXCEPT ![anim.step] = (@ \ {"active"}) \cup {"complete"}]
       IN  IF anim.step + 1 \in ProgressSteps
           THEN /\ stepClasses' = Activate(completed, anim.step + 1)
                /\ anim' = [pc |-> "sleeping", step |-> anim.step + 1,
                            wake |-> uiNow + STEP_DELAY]
           ELSE /\ stepClasses' = completed
                /\ anim' = [pc |-> "done"]
    /\ UNCHANGED <<uiNow, button, statusClasses, progressHidden, run, resetTimer, notUi>>

\* the timer of the finally block fires (pipeline.js:650-656)
ResetFires ==
    /\ resetTimer.pc = "pending"
    /\ resetTimer.at <= uiNow
    /\ progressHidden' = TRUE
    /\ stepClasses' = [step \in ProgressSteps |-> stepClasses[step] \ {"active", "complete"}]
    /\ resetTimer' = [pc |-> "fired"]
    /\ UNCHANGED <<uiNow, button, statusClasses, run, anim, notUi>>

\* the times at which a pending timer is due
DueTimes ==
    (IF anim.pc = "sleeping" THEN {anim.wake} ELSE {})
    \cup (IF run.pc = "sleep" THEN {run.wake} ELSE {})
    \cup (IF resetTimer.pc = "pending" THEN {resetTimer.at} ELSE {})

\* a reply of the network is awaited
ReplyPending == run.pc \in {"fetch", "json", "loadData"}

\* time passes: up to the next timer, or by a quantum while a reply is awaited; a
\* timer that is due fires before the clock passes it
UiTick ==
    /\ \A t \in DueTimes : t > uiNow
    /\ LET next == DueTimes \cup
                   (IF ReplyPending /\ uiNow < MaxWait THEN {uiNow + UiQuantum} ELSE {})
       IN  /\ next # {}
           /\ uiNow' = CHOOSE t \in next : \A u \in next : t <= u
    /\ UNCHANGED <<button, statusClasses, progressHidden, stepClasses, run, anim,
                   resetTimer, notUi>>

UiNext ==
    \/ Click
    \/ FetchResolves
    \/ FetchRejects
    \/ \E success \in BOOLEAN : JsonResolves(success)
    \/ JsonRejects
    \/ AnimationAwaitedSuccess
    \/ AnimationAwaitedFailure
    \/ SuccessShown
    \/ DataLoaded
    \/ StepCompletes
    \/ ResetFires
    \/ UiTick

-----------------------------------------------------------------------------
(* Properties of the Run button *)

RunPending == run.pc \in {"fetch", "json", "animation", "sleep", "loadData"}

\* C30: the Run button is disabled from the click until the outcome of the run is
\* known; after the run the button is enabled again and the status shows exactly
\* one of success and error and is not left at running; and once the reset timer
\* has fired no progress step is marked active or complete.
C30_RunSettles ==
    /\ RunPending => button.disabled
    /\ run.pc = "done" =>
          /\ ~button.disabled
          /\ "running" \notin statusClasses
          /\ Cardinality(statusClasses \cap {"success", "error"}) = 1
    /\ resetTimer.pc = "fired" =>
          \A step \in ProgressSteps : stepClasses[step] \cap {"active", "complete"} = {}

-----------------------------------------------------------------------------
(* Specifications *)

NormIdle ==
    /\ npc = "idle"
    /\ colors = <<>>
    /\ text = <<>>
    /\ effects = <<>>
    /\ normalized = InitialNormalized

PipeIdle ==
    /\ ppc = "idle"
    /\ results = [success |-> FALSE, steps |-> NoSteps, errors |-> <<>>]
    /\ spinnerLog = <<>>
    /\ tokenTypes = {}
    /\ platform = [p \in Platforms |-> "idle"]
    /\ files = {}

RateIdle ==
    /\ now = 0
    /\ lastRequestTime = 0
    /\ hasToken = FALSE
    /\ chain = [c \in Chains |-> At("idle", "")]
    /\ wakeAt = [c \in Chains |-> 0]
    /\ stylesLeft = 0
    /\ sent = <<>>

XformIdle ==
    /\ token = [path |-> <<>>, type |-> <<>>, name |-> <<>>, attributes |-> <<>>]
    /\ applied = <<>>

CallIdle ==
    /\ input = <<>>
    /\ output = NotCalled

DocIdle ==
    /\ dictionary = <<>>
    /\ rendered = <<>>

DetailIdle ==
    /\ styles = <<>>
    /\ cursor = 0
    /\ detailedStyles = NoDetails
    /\ processed = 0
    /\ requested = <<>>

UiIdle ==
    /\ uiNow = 0
    /\ button = [disabled |-> FALSE]
    /\ statusClasses = {"hidden"}
    /\ progressHidden = TRUE
    /\ stepClasses = [step \in ProgressSteps |-> {}]
    /\ run = [pc |-> "idle"]
    /\ anim = [pc |-> "idle"]
    /\ resetTimer = [pc |-> "unset"]

\* normalizeTokens over every sequence of at most MaxRecords extracted records
NormInit == NormStart /\ PipeIdle /\ RateIdle /\ XformIdle /\ CallIdle /\ DocIdle
            /\ DetailIdle /\ UiIdle
SpecNorm == NormInit /\ [][NormNext]_vars

\* one run of runPipeline
PipeInit == PipeStart /\ NormIdle /\ RateIdle /\ XformIdle /\ CallIdle /\ DocIdle
            /\ DetailIdle /\ UiIdle
SpecPipe == PipeInit /\ [][PipeNext]_vars

\* normalizeColors on one colour record, from Figma or from the mock adapter
SpecColor == NormInit /\ [][ColorNext]_vars

\* the value transforms applied to one token, up to MaxValueSteps times
ValueInit == ValueStart /\ NormIdle /\ PipeIdle /\ RateIdle /\ CallIdle /\ DocIdle
            /\ DetailIdle /\ UiIdle
SpecValue == ValueInit /\ [][ValueNext]_vars

\* parseFigmaName called on every style name of up to MaxNameLen characters
ParseInit == ParseStart /\ NormIdle /\ PipeIdle /\ RateIdle /\ XformIdle /\ DocIdle
            /\ DetailIdle /\ UiIdle
SpecParse == ParseInit /\ [][ParseNext]_vars

\* normalizeTypography on one text style with a line height
TextInit == TextStart /\ PipeIdle /\ RateIdle /\ XformIdle /\ CallIdle /\ DocIdle
            /\ DetailIdle /\ UiIdle
SpecText == TextInit /\ [][TextNext]_vars

\* name/semantic applied to tokens of up to MaxNamePathLen segments
NameInit == NameStart /\ NormIdle /\ PipeIdle /\ RateIdle /\ CallIdle /\ DocIdle
            /\ DetailIdle /\ UiIdle
SpecName == NameInit /\ [][NameNext]_vars

\* figmaEffectToCss called on every list of at most MaxLayers sampled layers
EffectInit == EffectStart /\ NormIdle /\ PipeIdle /\ RateIdle /\ XformIdle /\ DocIdle
            /\ DetailIdle /\ UiIdle
SpecEffect == EffectInit /\ [][EffectNext]_vars

\* the documentation formats on every list of at most MaxTokens sampled tokens
DocInit == DocStart /\ NormIdle /\ PipeIdle /\ RateIdle /\ XformIdle /\ CallIdle
            /\ DetailIdle /\ UiIdle
SpecDoc == DocInit /\ [][DocNext]_vars

\* fetchStyleDetails on every list of at most MaxStyleList sampled styles
DetailInit == DetailStart /\ NormIdle /\ PipeIdle /\ RateIdle /\ XformIdle /\ CallIdle
            /\ DocIdle /\ UiIdle
SpecDetail == DetailInit /\ [][DetailNext]_vars

\* one click on the Run button of the demo page
UiInit == UiStart /\ NormIdle /\ PipeIdle /\ RateIdle /\ XformIdle /\ CallIdle
            /\ DocIdle /\ DetailIdle
SpecUi == UiInit /\ [][UiNext]_vars

\* one call of fetchFileTokens
RateInit == RateStart /\ NormIdle /\ PipeIdle /\ XformIdle /\ CallIdle /\ DocIdle
            /\ DetailIdle /\ UiIdle
SpecRate == RateInit /\ [][RateNext]_vars

\* repeated application of the two transforms to one token
XformInit == XformStart /\ NormIdle /\ PipeIdle /\ RateIdle /\ CallIdle /\ DocIdle
            /\ DetailIdle /\ UiIdle
SpecXform == XformInit /\ [][XformNext]_vars

=============================================================================
